---- MODULE Spec2Model ----
(***************************************************************************)
(* A model of the BEAM disassembler "prism" (package beam):                *)
(*   - the analysis engine of analysis.py (CodeItemizer, FunctionFinder,   *)
(*     Beamalyzer) over decoded instruction sequences;                     *)
(*   - the container parser of module.py over byte streams;                *)
(*   - the compact term reader of utils.py / types.py.                     *)
(* Python lists are sequences (index 0 of the code is index 1 here), a     *)
(* Python None is the empty sequence <<>> and a value x that may be None   *)
(* is the one-element sequence <<x>>.                                      *)
(***************************************************************************)
EXTENDS Integers, Sequences, FiniteSets, TLC

VARIABLES
    code,       \* code[m]: BeamCodeSection.insts of module m
    phase,      \* phase[m]: "parsed" (BeamFile built) or "analyzed" (Beamalyzer built)
    blocks,     \* blocks[m]: CodeItemizer.__blocks, label id -> CodeBlock
    functions,  \* functions[m]: Beamalyzer.__functions
    instAnn,    \* instAnn[m][i]: BeamInst.__annotations of code[m][i]
    annResult,  \* annResult[m]: outcome of the last annotate call on m
    lastCall,   \* <<>> or <<m, others>>: the most recent annotate call
    calls,      \* number of annotate calls made so far
    merge,      \* <<>> or the find_merging_block call made and its outcome
    graph,      \* the calls of graph_block in progress and the functions graphed
    given,      \* how the byte stream handed to BeamFile was put together
    source,     \* BeamFile.__source: the bytes of the stream
    pos,        \* read position of BeamFile.__source
    length,     \* BeamFile.__length
    decoded,    \* the (marker, content) pairs passed to __decode_chunk so far
    sections,   \* the section attributes of BeamFile (None until decoded)
    result,     \* outcome of BeamFile(f) / load_beam: "none" before the call
    gzipTried,  \* load_beam has fallen back to load_gzipped_beam
    access,     \* <<>> or the outcomes of the accessors called on the BeamFile
    termGiven,  \* the value handed to the compact-term encoder, and the form
    termSource, \* the byte stream read_term reads from
    termResult, \* outcome of read_term: <<>> before the call
    argv,       \* <<>> or the arguments of prism_main and the files they name
    beamsFound, \* <<>> or the count printed by "Found %d BEAM modules"
    exitStatus, \* <<>> or how the run of prism_main ended
    written     \* the texts disassemble_beams has written, in order

analysisVars ==
    <<code, phase, blocks, functions, instAnn, annResult, lastCall, calls, merge, graph>>

containerVars ==
    <<given, source, pos, length, decoded, sections, result, gzipTried, access>>

termVars == <<termGiven, termSource, termResult>>

driverVars == <<argv, beamsFound, exitStatus, written>>

vars == <<analysisVars, containerVars, termVars, driverVars>>

(***************************************************************************)
(* Bounds of the model.                                                    *)
(***************************************************************************)
MaxInsts == 4       \* longest enumerated instruction sequence of SpecGraph
MaxLabel == 3       \* label ids of SpecGraph are 1..MaxLabel (0 is never a block)
MaxBlocks == 3      \* most blocks of module 1 in SpecAnnotate, TwoFunctions aside
MaxCalls == 2       \* most annotate calls in a behaviour of SpecAnnotate
MaxStringLen == 3   \* byte-string payloads of SpecTerm have 2..MaxStringLen bytes
MaxChunks == 2      \* most chunks of a container of SpecContainer
MaxStepBlocks == 2  \* most blocks after the first of a module of SpecGraphSteps
MaxFiles == 2       \* most files of a directory, and most streams they hold
MaxLineTerms == 3   \* most compact terms of the Line chunk of SpecLine
MaxBodyLen == 5     \* bodies of the chunks of unknown tag have 0..MaxBodyLen bytes

Modules == {1, 2}

(***************************************************************************)
(* Generic helpers.                                                        *)
(***************************************************************************)
SeqsUpTo(S, n) == UNION {[1..k -> S] : k \in 0..n}

InSeq(x, s) == \E i \in 1..Len(s) : s[i] = x

RECURSIVE SortedSeq(_)
SortedSeq(S) ==
    IF S = {} THEN <<>>
    ELSE LET lo == CHOOSE x \in S : \A y \in S : x <= y
         IN  <<lo>> \o SortedSeq(S \ {lo})

RECURSIVE CountIn(_, _)
CountIn(x, s) ==
    IF s = <<>> THEN 0
    ELSE (IF Head(s) = x THEN 1 ELSE 0) + CountIn(x, Tail(s))

(***************************************************************************)
(* Values (types.py) and instructions (instset.py).  A value is a record   *)
(* [t, v, items]: t the class, v the payload (index or value), items the   *)
(* elements of a BeamExtList.                                              *)
(***************************************************************************)
Val(t, v) == [t |-> t, v |-> v, items |-> <<>>]

BeamExtList(items) == [t |-> "ExtList", v |-> 0, items |-> items]

Inst(op, operands) == [op |-> op, operands |-> operands]

BeamInstLabel(l) == Inst("label", <<Val("Literal", l)>>)

BeamInstFuncInfo(mod, name, arity) ==
    Inst("func_info", <<Val("Atom", mod), Val("Atom", name), Val("Literal", arity)>>)

BeamInstReturn == Inst("return", <<>>)

BeamInstJump(t) == Inst("jump", <<Val("Label", t)>>)

BeamInstCall(arity, l) == Inst("call", <<Val("Literal", arity), Val("Label", l)>>)

BeamInstCallExt(arity, imp) == Inst("call_ext", <<Val("Literal", arity), Val("Literal", imp)>>)

\* select_val X0, fail label, [Integer 1, Label l1, Integer 2, Label l2, ...]
RECURSIVE CaseList(_, _)
CaseList(ls, k) ==
    IF ls = <<>> THEN <<>>
    ELSE <<Val("Integer", k), Val("Label", Head(ls))>> \o CaseList(Tail(ls), k + 1)

BeamInstSelectVal(fail, ls) ==
    Inst("select_val", <<Val("XReg", 0), Val("Label", fail), BeamExtList(CaseList(ls, 1))>>)

\* select_tuple_arity X0, fail label, [Literal 1, Label l1, Literal 2, Label l2, ...]
RECURSIVE ArityList(_, _)
ArityList(ls, k) ==
    IF ls = <<>> THEN <<>>
    ELSE <<Val("Literal", k), Val("Label", Head(ls))>> \o ArityList(Tail(ls), k + 1)

BeamInstSelectTupleArity(fail, ls) ==
    Inst("select_tuple_arity", <<Val("XReg", 0), Val("Label", fail), BeamExtList(ArityList(ls, 1))>>)

\* BeamInst.jumprefs as set by the jumpref_op decorator (0-based operand
\* positions); a class without the decorator, as BeamInstSelectTupleArity,
\* keeps the empty list of BeamInst
jumprefs(op) ==
    CASE op = "jump"       -> <<0>>
      [] op = "is_lt"      -> <<0>>
      [] op = "select_val" -> <<2>>
      [] OTHER             -> <<>>

\* BeamInst.exit_func as set by the exit_func decorator
exit_func(op) == op \in {"int_code_end", "return", "badmatch", "if_end", "case_end"}

RECURSIVE LabelsOf(_)
LabelsOf(items) ==
    IF items = <<>> THEN <<>>
    ELSE (IF Head(items).t = "Label" THEN <<Head(items).v>> ELSE <<>>) \o LabelsOf(Tail(items))

RECURSIVE jump_targets_from(_, _)
jump_targets_from(inst, r) ==
    IF r > Len(jumprefs(inst.op)) THEN <<>>
    ELSE LET ref == jumprefs(inst.op)[r]
             here == IF ref < Len(inst.operands)
                     THEN LET operand == inst.operands[ref + 1]
                          IN  IF operand.t = "Label" THEN <<operand.v>>
                              ELSE IF operand.t = "ExtList" THEN LabelsOf(operand.items)
                              ELSE <<>>
                     ELSE <<>>
         IN  here \o jump_targets_from(inst, r + 1)

jump_targets(inst) == jump_targets_from(inst, 1)

(***************************************************************************)
(* CodeBlock (analysis.py).                                                *)
(***************************************************************************)
CodeBlock(label) ==
    [label |-> label, insts |-> <<>>, outgoing |-> <<>>, ingoing |-> <<>>,
     external |-> <<>>, next |-> <<>>, annotations |-> <<>>]

add_inst(blk, i) == [blk EXCEPT !.insts = Append(@, i)]

add_in_link_never(blk, src) == blk

add_in_link(blk, src) ==
    IF InSeq(src, blk.ingoing) THEN blk ELSE [blk EXCEPT !.ingoing = Append(@, src)]

\* add_out_link that records no pair
add_out_link_forgets(blk, i, target) == blk

\* the block after add_out_link; the call returns TRUE iff the pair was new
add_out_link(blk, i, target) ==
    IF InSeq(<<i, target>>, blk.outgoing) THEN blk
    ELSE [blk EXCEPT !.outgoing = Append(@, <<i, target>>)]

add_annotation(blk, annotation) == [blk EXCEPT !.annotations = Append(@, annotation)]

\* add_external_ref writing to the annotations of the block
add_external_ref_as_annotation(blk, caller) == add_annotation(blk, caller)

add_external_ref(blk, caller) ==
    IF InSeq(caller, blk.external) THEN blk ELSE [blk EXCEPT !.external = Append(@, caller)]

set_next(blk, next) == [blk EXCEPT !.next = <<next>>]

\* CodeBlock.is_terminal over the instructions c of the module
is_terminal(c, blk) == \E j \in 1..Len(blk.insts) : exit_func(c[blk.insts[j]].op)

(***************************************************************************)
(* CodeItemizer.  B is the dictionary __blocks: a function from the label  *)
(* ids in use to CodeBlock records.  Instructions are held by their        *)
(* position in the code section: two instructions equal in mnemonic and    *)
(* operands are still two objects.                                         *)
(***************************************************************************)
store_block(B, blk) ==
    [l \in DOMAIN B \cup {blk.label} |-> IF l = blk.label THEN blk ELSE B[l]]

save_last_block_never(B, cur) == B

save_last_block(B, cur) == IF cur # <<>> THEN store_block(B, cur[1]) ELSE B

RECURSIVE parse_code_blocks_from(_, _, _, _)
parse_code_blocks_from(c, i, B, cur) ==
    IF i > Len(c) THEN save_last_block(B, cur)
    ELSE IF c[i].op = "label"
         THEN parse_code_blocks_from(c, i + 1,
                  IF cur # <<>> THEN store_block(B, cur[1]) ELSE B,
                  <<CodeBlock(c[i].operands[1].v)>>)
         ELSE IF cur # <<>>
              THEN parse_code_blocks_from(c, i + 1, B, <<add_inst(cur[1], i)>>)
              ELSE parse_code_blocks_from(c, i + 1, B, cur)

parse_code_blocks(c) == parse_code_blocks_from(c, 1, <<>>, <<>>)

\* the labels in the order CodeItemizer.enumerate yields their blocks
enumerate(B) == SortedSeq(DOMAIN B)

(***************************************************************************)
(* FunctionInfo and FunctionFinder.find_functions.                         *)
(***************************************************************************)
FunctionInfo(func_info, blks) ==
    [module |-> func_info.operands[1].v, name |-> func_info.operands[2].v,
     arity |-> func_info.operands[3].v, blocks |-> blks]

\* current_labels[:-1] and current_labels[-1:]
labels_of_previous(labels) == SubSeq(labels, 1, Len(labels) - 1)

\* current_labels emptied instead of cut to its last element
labels_kept_none(labels) == <<>>

labels_kept(labels) == IF labels = <<>> THEN <<>> ELSE <<labels[Len(labels)]>>

RECURSIVE find_functions_insts(_, _, _, _)
find_functions_insts(c, insts, j, st) ==
    IF j > Len(insts) THEN st
    ELSE IF c[insts[j]].op = "func_info"
         THEN LET st1 == IF st.cur # <<>>
                         THEN [st EXCEPT
                                 !.functions = Append(@, FunctionInfo(c[st.cur[1]],
                                                   labels_of_previous(st.labels))),
                                 !.labels = labels_kept(st.labels)]
                         ELSE st
              IN  find_functions_insts(c, insts, j + 1, [st1 EXCEPT !.cur = <<insts[j]>>])
         ELSE find_functions_insts(c, insts, j + 1, st)

RECURSIVE find_functions_blocks(_, _, _, _, _)
find_functions_blocks(c, B, order, k, st) ==
    IF k > Len(order) THEN st
    ELSE LET blk == B[order[k]]
             st1 == [st EXCEPT !.labels = Append(@, blk.label)]
         IN  find_functions_blocks(c, B, order, k + 1,
                                   find_functions_insts(c, blk.insts, 1, st1))

\* find_functions without "Save the last function"
find_functions_no_flush(c, B) ==
    find_functions_blocks(c, B, enumerate(B), 1,
        [functions |-> <<>>, cur |-> <<>>, labels |-> <<>>]).functions

find_functions(c, B) ==
    LET st == find_functions_blocks(c, B, enumerate(B), 1,
                  [functions |-> <<>>, cur |-> <<>>, labels |-> <<>>])
    IN  IF st.cur # <<>>
        THEN Append(st.functions, FunctionInfo(c[st.cur[1]], st.labels))
        ELSE st.functions

(***************************************************************************)
(* FunctionFinder.graph_block / graph_function.  The three operators are   *)
(* the three nested loops of graph_block; each returns the dictionary of   *)
(* blocks after the loop, the inner two with the flag `raised` set when    *)
(* get_block raised IndexError, which the try of the block loop catches.   *)
(***************************************************************************)
RECURSIVE graph_block(_, _, _, _, _), graph_insts(_, _, _, _), graph_targets(_, _, _, _, _, _)

graph_targets(c, b, i, targets, t, B) ==
    IF t > Len(targets) THEN [B |-> B, raised |-> FALSE]
    ELSE LET target == targets[t]
             new == ~InSeq(<<i, target>>, B[b].outgoing)
             B1  == [B EXCEPT ![b] = add_out_link(@, i, target)]
             B2  == IF new THEN graph_block(c, <<target>>, 1, <<>>, B1) ELSE B1
         IN  IF target \notin DOMAIN B2
             THEN [B |-> B2, raised |-> TRUE]
             ELSE graph_targets(c, b, i, targets, t + 1,
                                [B2 EXCEPT ![target] = add_in_link(@, b)])

graph_insts(c, b, j, B) ==
    IF j > Len(B[b].insts) THEN [B |-> B, raised |-> FALSE]
    ELSE LET i == B[b].insts[j]
             r == graph_targets(c, b, i, jump_targets(c[i]), 1, B)
         IN  IF r.raised THEN r ELSE graph_insts(c, b, j + 1, r.B)

graph_block(c, todo, k, prev, B) ==
    IF k > Len(todo) THEN B
    ELSE LET b == todo[k]
         IN  IF b \notin DOMAIN B
             THEN graph_block(c, todo, k + 1, prev, B)
             ELSE LET B1 == IF prev # <<>>
                            THEN [B EXCEPT ![prev[1]] = set_next(@, b)]
                            ELSE B
                      r  == graph_insts(c, b, 1, B1)
                  IN  IF r.raised
                      THEN graph_block(c, todo, k + 1, prev, r.B)
                      ELSE graph_block(c, todo, k + 1, <<b>>, r.B)

\* graph_function that starts from the first block of the function
graph_function_from_first(c, function, B) == graph_block(c, function.blocks, 1, <<>>, B)

graph_function(c, function, B) ==
    graph_block(c, SubSeq(function.blocks, 2, Len(function.blocks)), 1, <<>>, B)

RECURSIVE graph_functions(_, _, _, _)
graph_functions(c, fs, k, B) ==
    IF k > Len(fs) THEN B
    ELSE graph_functions(c, fs, k + 1, graph_function(c, fs[k], B))

(***************************************************************************)
(* Beamalyzer.__init__: itemize, find the functions, graph each of them.   *)
(***************************************************************************)
Analyze(m) ==
    /\ phase[m] = "parsed"
    /\ \A n \in Modules : n < m => phase[n] = "analyzed"
    /\ LET B0 == parse_code_blocks(code[m])
           fs == find_functions(code[m], B0)
       IN  /\ functions' = [functions EXCEPT ![m] = fs]
           /\ blocks' = [blocks EXCEPT ![m] = graph_functions(code[m], fs, 1, B0)]
    /\ phase' = [phase EXCEPT ![m] = "analyzed"]
    /\ UNCHANGED <<code, instAnn, annResult, lastCall, calls, merge, graph, containerVars, termVars,
                   driverVars>>

(***************************************************************************)
(* SpecGraph: one module whose code section is any instruction sequence    *)
(* of at most MaxInsts instructions over GraphInsts; the second module has *)
(* an empty code section.                                                  *)
(***************************************************************************)
GraphInsts ==
    {BeamInstLabel(l) : l \in 1..MaxLabel}
    \cup {BeamInstFuncInfo(1, 2, 0), BeamInstReturn}
    \cup {BeamInstJump(t) : t \in 0..MaxLabel}
    \cup {BeamInstSelectVal(0, <<0, 1>>)}

\* longer code sections: two blocks that jump to each other, a block that
\* jumps to a missing label and then to an existing one, a jump into another
\* function, and the three-function layout a compiler emits
ScenarioCodes ==
    { <<BeamInstLabel(1), BeamInstFuncInfo(1, 2, 0), BeamInstJump(2),
        BeamInstLabel(2), BeamInstJump(1)>>,
      <<BeamInstLabel(1), BeamInstFuncInfo(1, 2, 0),
        BeamInstLabel(2), BeamInstJump(1), BeamInstJump(0), BeamInstJump(2)>>,
      <<BeamInstLabel(1), BeamInstFuncInfo(1, 2, 0), BeamInstLabel(2), BeamInstJump(4),
        BeamInstLabel(3), BeamInstFuncInfo(1, 3, 0), BeamInstLabel(4), BeamInstJump(2),
        BeamInstLabel(5), Inst("int_code_end", <<>>)>>,
      <<BeamInstLabel(1), BeamInstFuncInfo(1, 2, 0),
        BeamInstLabel(2), BeamInstSelectVal(3, <<3, 4>>),
        BeamInstLabel(3), BeamInstReturn, BeamInstLabel(4), BeamInstReturn,
        BeamInstLabel(5), Inst("int_code_end", <<>>)>>,
      <<BeamInstLabel(1), BeamInstFuncInfo(1, 2, 0),
        BeamInstLabel(2), BeamInstSelectTupleArity(3, <<3, 4>>),
        BeamInstLabel(3), BeamInstReturn, BeamInstLabel(4), BeamInstReturn,
        BeamInstLabel(5), Inst("int_code_end", <<>>)>> }

\* the section attributes of BeamFile
SectionNames == {"line_nums", "atoms", "imports", "exports", "funcs", "literals", "code"}

\* no stream has been handed to BeamFile
NoContainer ==
    /\ given = <<>>
    /\ source = <<>>
    /\ pos = 0
    /\ length = 0
    /\ decoded = <<>>
    /\ sections = [s \in SectionNames |-> <<>>]
    /\ result = "none"
    /\ gzipTried = FALSE
    /\ access = <<>>

\* no stream has been handed to read_term
NoTerm ==
    /\ termGiven = <<>>
    /\ termSource = <<>>
    /\ termResult = <<>>

\* prism_main has not been started
NoDriver ==
    /\ argv = <<>>
    /\ beamsFound = <<>>
    /\ exitStatus = <<>>
    /\ written = <<>>

\* no module has been loaded
NoAnalysis ==
    /\ code = [m \in Modules |-> <<>>]
    /\ phase = [m \in Modules |-> "none"]
    /\ blocks = [m \in Modules |-> <<>>]
    /\ functions = [m \in Modules |-> <<>>]
    /\ instAnn = [m \in Modules |-> <<>>]
    /\ annResult = [m \in Modules |-> "none"]
    /\ lastCall = <<>>
    /\ calls = 0
    /\ merge = <<>>
    /\ graph = [fn |-> 0, stack |-> <<>>]

InitAnalysis(c1, c2) ==
    /\ NoContainer
    /\ NoTerm
    /\ NoDriver
    /\ code = <<c1, c2>>
    /\ phase = [m \in Modules |-> "parsed"]
    /\ blocks = [m \in Modules |-> <<>>]
    /\ functions = [m \in Modules |-> <<>>]
    /\ instAnn = [m \in Modules |-> [i \in 1..Len(code[m]) |-> <<>>]]
    /\ annResult = [m \in Modules |-> "none"]
    /\ lastCall = <<>>
    /\ calls = 0
    /\ merge = <<>>
    /\ graph = [fn |-> 0, stack |-> <<>>]

InitGraph ==
    \E c \in SeqsUpTo(GraphInsts, MaxInsts) \cup ScenarioCodes : InitAnalysis(c, <<>>)

NextGraph == \E m \in Modules : Analyze(m)

SpecGraph == InitGraph /\ [][NextGraph]_vars

(***************************************************************************)
(* Properties of the analysis of one module.                               *)
(***************************************************************************)
Analyzed(m) == phase[m] = "analyzed"

Targets(blk) == {blk.outgoing[k][2] : k \in 1..Len(blk.outgoing)}

Sources(blk) == {blk.ingoing[k] : k \in 1..Len(blk.ingoing)}

\* the blocks of B with an outgoing pair whose target is T
SourcesOf(B, T) == {S \in DOMAIN B : T \in Targets(B[S])}

\* C1 as amended (CFG closure): once a module is analyzed, every outgoing
\* pair (inst, T) of a block S whose target T is an existing block has S in
\* T's incoming list, and every label in a block T's incoming list is a block
\* with an outgoing pair to T: the incoming set of every block equals the set
\* of blocks with an outgoing edge to it.  An outgoing pair may name a label
\* that is no block.
C1_CFGClosure ==
    \A m \in Modules : Analyzed(m) =>
        \A T \in DOMAIN blocks[m] : Sources(blocks[m][T]) = SourcesOf(blocks[m], T)

\* C1 as stated: every target of an outgoing pair is a block that lists the
\* source in its incoming list, and conversely.
C1_CFGClosure_Original ==
    \A m \in Modules : Analyzed(m) =>
        /\ \A S \in DOMAIN blocks[m] : \A T \in Targets(blocks[m][S]) :
               T \in DOMAIN blocks[m] /\ S \in Sources(blocks[m][T])
        /\ \A T \in DOMAIN blocks[m] : \A S \in Sources(blocks[m][T]) :
               S \in DOMAIN blocks[m] /\ T \in Targets(blocks[m][S])

\* an analyzed module where one block has an edge to another existing block
\* and some block has an outgoing pair to a label that is no block
C1_Witness ==
    /\ Analyzed(1)
    /\ \E S, T \in DOMAIN blocks[1] : S # T /\ T \in Targets(blocks[1][S])
    /\ \E S \in DOMAIN blocks[1] : \E T \in Targets(blocks[1][S]) : T \notin DOMAIN blocks[1]

LabelPositions(c) == {i \in 1..Len(c) : c[i].op = "label"}

\* the code starts with a label and its label ids are strictly increasing
WellLabelled(c) ==
    /\ c # <<>> => c[1].op = "label"
    /\ \A i, j \in LabelPositions(c) : i < j => c[i].operands[1].v < c[j].operands[1].v

RECURSIVE Reassemble(_, _, _, _)
Reassemble(c, B, order, k) ==
    IF k > Len(order) THEN <<>>
    ELSE LET blk == B[order[k]]
         IN  <<BeamInstLabel(blk.label)>> \o [j \in 1..Len(blk.insts) |-> c[blk.insts[j]]]
             \o Reassemble(c, B, order, k + 1)

\* C2 as amended (block partition): for a code section that starts with a
\* label and whose label ids are strictly increasing, the blocks in label
\* order, each prefixed by its label instruction, give back the code section.
C2_BlockPartition ==
    \A m \in Modules : (Analyzed(m) /\ WellLabelled(code[m])) =>
        Reassemble(code[m], blocks[m], enumerate(blocks[m]), 1) = code[m]

\* C2 as stated: the same for every code section.
C2_BlockPartition_Original ==
    \A m \in Modules : Analyzed(m) =>
        Reassemble(code[m], blocks[m], enumerate(blocks[m]), 1) = code[m]

C2_Witness ==
    /\ Analyzed(1)
    /\ WellLabelled(code[1])
    /\ Cardinality(DOMAIN blocks[1]) >= 2
    /\ \E l \in DOMAIN blocks[1] : blocks[1][l].insts # <<>>

HasFuncInfo(m) ==
    \E l \in DOMAIN blocks[m] : \E j \in 1..Len(blocks[m][l].insts) :
        code[m][blocks[m][l].insts[j]].op = "func_info"

HasFuncInfoIn(m, l) ==
    \E j \in 1..Len(blocks[m][l].insts) : code[m][blocks[m][l].insts[j]].op = "func_info"

RECURSIVE Occurrences(_, _)
Occurrences(l, fs) ==
    IF fs = <<>> THEN 0 ELSE CountIn(l, Head(fs).blocks) + Occurrences(l, Tail(fs))

\* the file-final block: the last block in label order
FinalBlock(B) == {l \in DOMAIN B : \A k \in DOMAIN B : k <= l}

\* C3 as amended (function coverage): when some block contains a func_info,
\* every block other than the file-final one is in the block list of exactly
\* one FunctionInfo, once.
C3_FunctionCoverage ==
    \A m \in Modules : (Analyzed(m) /\ HasFuncInfo(m)) =>
        \A l \in DOMAIN blocks[m] \ FinalBlock(blocks[m]) : Occurrences(l, functions[m]) = 1

\* C3 as stated: the same for any itemized code.
C3_FunctionCoverage_Original ==
    \A m \in Modules : Analyzed(m) =>
        \A l \in DOMAIN blocks[m] \ FinalBlock(blocks[m]) : Occurrences(l, functions[m]) = 1

\* two functions found over at least three blocks, the first function
\* owning a block that precedes its func_info
C3_Witness ==
    /\ Analyzed(1)
    /\ Len(functions[1]) >= 2
    /\ Cardinality(DOMAIN blocks[1]) >= 3

\* the block of each func_info instruction, in the order in which the walk
\* over the blocks in label order meets them
RECURSIVE FuncInfoSites(_, _, _, _)
FuncInfoSites(c, B, order, k) ==
    IF k > Len(order) THEN <<>>
    ELSE LET blk == B[order[k]]
         IN  SelectSeq([j \in 1..Len(blk.insts) |->
                          IF c[blk.insts[j]].op = "func_info" THEN blk.label ELSE 0],
                       LAMBDA l : l # 0)
             \o FuncInfoSites(c, B, order, k + 1)

\* the labels of the blocks from lo up to but excluding hi, ascending
LabelsBetween(B, lo, hi) == SortedSeq({l \in DOMAIN B : lo <= l /\ l < hi})

\* the block list of the k-th function when it starts at block `first`
BlockListFrom(B, sites, k, first) ==
    LabelsBetween(B, first, IF k < Len(sites) THEN sites[k + 1] ELSE MaxLabel + 100)

BodyBlocks(function) == SubSeq(function.blocks, 2, Len(function.blocks))

\* C19 (CFG construction): once a module is analyzed, for every function,
\* every block b of its block list from the second onward, every instruction
\* i of b and every jump target t of i, the pair (i, t) is in b's outgoing
\* list and, when t is a block, b is in t's incoming list, also when an
\* earlier target of b is a label that is no block.
C19_CFGConstruction ==
    \A m \in Modules : Analyzed(m) =>
        \A k \in 1..Len(functions[m]) :
            LET body == BodyBlocks(functions[m][k])
            IN  \A x \in 1..Len(body) : \A j \in 1..Len(blocks[m][body[x]].insts) :
                  LET b == body[x]
                      i == blocks[m][b].insts[j]
                      targets == jump_targets(code[m][i])
                  IN  \A t \in 1..Len(targets) :
                        /\ InSeq(<<i, targets[t]>>, blocks[m][b].outgoing)
                        /\ targets[t] \in DOMAIN blocks[m] =>
                               InSeq(b, blocks[m][targets[t]].ingoing)

\* C20 (fall-through): once a module is analyzed, for every function and
\* every two consecutive blocks P, Q of its block list from the second
\* onward, P.next is Q's label if P holds no terminal instruction and None
\* if P holds one.
C20_FallThrough ==
    \A m \in Modules : Analyzed(m) =>
        \A k \in 1..Len(functions[m]) :
            LET body == BodyBlocks(functions[m][k])
            IN  \A x \in 1..(Len(body) - 1) :
                  blocks[m][body[x]].next =
                      IF is_terminal(code[m], blocks[m][body[x]]) THEN <<>> ELSE <<body[x + 1]>>

\* the instruction is a switch: select_val or select_tuple_arity
IsSwitch(inst) == inst.op \in {"select_val", "select_tuple_arity"}

\* C21 (switch jump references): for every select_val and every
\* select_tuple_arity instruction of the code, jump_targets is the list of
\* the label ids held by its operand-2 list, in list order.
C21_SwitchJumpRefs ==
    \A m \in Modules : \A i \in 1..Len(code[m]) :
        (Analyzed(m) /\ IsSwitch(code[m][i]))
            => jump_targets(code[m][i]) = LabelsOf(code[m][i].operands[3].items)

\* the functions of module m whose block list holds block b
FunctionsOf(m, b) == {k \in 1..Len(functions[m]) : InSeq(b, functions[m][k].blocks)}

follow_next(B, block) ==
    IF block = <<>> THEN [exc |-> "none", path |-> <<>>]
    ELSE IF block[1] \notin DOMAIN B THEN [exc |-> "IndexError", path |-> <<block[1]>>]
    ELSE [exc |-> "AttributeError", path |-> <<block[1]>>]

\* "Keep same elements and return the first one": <<>> is None
first_same(a_next, b_next) ==
    IF \E i \in 1..Len(a_next) : InSeq(a_next[i], b_next)
    THEN <<a_next[CHOOSE i \in 1..Len(a_next) :
                    /\ InSeq(a_next[i], b_next)
                    /\ \A j \in 1..(i - 1) : ~InSeq(a_next[j], b_next)]>>
    ELSE <<>>

merging_block(a_path, b_path) ==
    IF a_path.exc # "none" THEN [exc |-> a_path.exc, v |-> <<>>]
    ELSE IF b_path.exc # "none" THEN [exc |-> b_path.exc, v |-> <<>>]
    ELSE [exc |-> "none", v |-> first_same(a_path.path, b_path.path)]

find_merging_block(B, block_a, block_b) ==
    merging_block(follow_next(B, block_a), follow_next(B, block_b))

FindMergingBlock(m, block_a, block_b) ==
    /\ phase[m] = "analyzed"
    /\ merge = <<>>
    /\ merge' = <<[m |-> m, a |-> block_a, b |-> block_b,
                   r |-> find_merging_block(blocks[m], block_a, block_b)]>>
    /\ UNCHANGED <<code, phase, blocks, functions, instAnn, annResult, lastCall, calls, graph,
                   containerVars, termVars, driverVars>>

(***************************************************************************)
(* SpecMerge: module 1 is a run of blocks labelled 1, 2, ... with bodies   *)
(* of MergeBodies; it is analyzed and find_merging_block is called once,   *)
(* on None or any label from 0 to one past the last block.                 *)
(***************************************************************************)
MergeBodies ==
    { <<>>, <<BeamInstFuncInfo(1, 2, 0)>>, <<BeamInstReturn>>, <<BeamInstJump(1)>> }

RECURSIVE FlattenBlocks(_, _)
FlattenBlocks(bodies, k) ==
    IF k > Len(bodies) THEN <<>>
    ELSE <<BeamInstLabel(k)>> \o bodies[k] \o FlattenBlocks(bodies, k + 1)

MergeArgs == {<<>>} \cup {<<l>> : l \in 0..(MaxBlocks + 1)}

InitMerge ==
    \E bodies \in SeqsUpTo(MergeBodies, MaxBlocks) : InitAnalysis(FlattenBlocks(bodies, 1), <<>>)

NextMerge ==
    \/ \E m \in Modules : Analyze(m)
    \/ \E m \in Modules, a \in MergeArgs, b \in MergeArgs : FindMergingBlock(m, a, b)

SpecMerge == InitMerge /\ [][NextMerge]_vars

\* the path the query is meant to collect: the labels from `block` along the
\* next chain, ending at the end of the chain or before a terminal block
RECURSIVE NextChain(_, _, _, _)
NextChain(c, B, block, fuel) ==
    IF fuel = 0 \/ block \notin DOMAIN B THEN <<>>
    ELSE <<block>> \o
         (IF B[block].next = <<>> THEN <<>>
          ELSE IF B[block].next[1] \in DOMAIN B /\ is_terminal(c, B[B[block].next[1]]) THEN <<>>
          ELSE NextChain(c, B, B[block].next[1], fuel - 1))

\* C12 (path-merge query): for any two existing block labels a and b the
\* call find_merging_block(a, b) returns without exception, and returns the
\* first label of a's next chain that is also on b's next chain, or None
\* when the chains share no label.
C12_FindMergingBlock ==
    (/\ merge # <<>>
     /\ merge[1].a # <<>> /\ merge[1].b # <<>>
     /\ merge[1].a[1] \in DOMAIN blocks[merge[1].m]
     /\ merge[1].b[1] \in DOMAIN blocks[merge[1].m]) =>
        LET m == merge[1].m
            n == Cardinality(DOMAIN blocks[m])
        IN  /\ merge[1].r.exc = "none"
            /\ merge[1].r.v = first_same(NextChain(code[m], blocks[m], merge[1].a[1], n),
                                         NextChain(code[m], blocks[m], merge[1].b[1], n))

(***************************************************************************)
(* The tables of the two modules (BeamFile.__atoms, BeamFile.__imports).   *)
(* Module 1 is A, module 2 is B; atom 0 is the placeholder, atom 1 the     *)
(* module's own name.  Each module imports f/0 of the other module.        *)
(***************************************************************************)
AtomTable(m) ==
    IF m = 1 THEN <<"module", "A", "f", "g", "B">> ELSE <<"module", "B", "f", "g", "A">>

ImportTable(m) == <<[module |-> 4, function |-> 2, arity |-> 0]>>

\* BeamFile.get_atom for an index inside the table
get_atom(m, atom_index) == AtomTable(m)[atom_index + 1]

\* FunctionInfo.to_string: '%s:%s/%d', kept as the triple it is built from
to_string(m, func) == <<get_atom(m, func.module), get_atom(m, func.name), func.arity>>

\* BeamFile.get_import_str: '<%s:%s/%d>' for an index inside the import table
get_import_str(m, import_index) ==
    LET imp == ImportTable(m)[import_index + 1]
    IN  <<get_atom(m, imp.module), get_atom(m, imp.function), imp.arity>>

\* BeamFile.get_value of the case values, which are BeamInteger: '0x%x'
get_value(value) == <<"0x", value.v>>

(***************************************************************************)
(* Beamalyzer.add_function_caller, on the dictionaries BB of all modules.  *)
(* raised: func.blocks[1] raised IndexError.                               *)
(***************************************************************************)
RECURSIVE add_function_caller_from(_, _, _, _, _)
add_function_caller_from(mod, BB, k, function_sig, caller) ==
    IF k > Len(functions[mod]) THEN [BB |-> BB, raised |-> FALSE]
    ELSE LET func == functions[mod][k]
         IN  IF to_string(mod, func) = function_sig
             THEN IF Len(func.blocks) < 2
                  THEN [BB |-> BB, raised |-> TRUE]
                  ELSE [BB |-> [BB EXCEPT ![mod][func.blocks[2]] =
                                     add_external_ref(@, caller)],
                        raised |-> FALSE]
             ELSE add_function_caller_from(mod, BB, k + 1, function_sig, caller)

add_function_caller(mod, BB, function_sig, caller) ==
    add_function_caller_from(mod, BB, 1, function_sig, caller)

(***************************************************************************)
(* Beamalyzer.annotate.                                                    *)
(***************************************************************************)
Annotation(kind, text, label) == [kind |-> kind, text |-> text, label |-> label]

\* func_labels: function.blocks[1] -> function, a later function replacing
\* an earlier one under the same key
func_labels(fs) ==
    [l \in {fs[k].blocks[2] : k \in 1..Len(fs)} |->
        fs[CHOOSE k \in 1..Len(fs) :
              /\ fs[k].blocks[2] = l
              /\ \A j \in 1..Len(fs) : fs[j].blocks[2] = l => j <= k]]

\* building func_labels raises IndexError on a function of fewer than two blocks
func_labels_raises(fs) == \E k \in 1..Len(fs) : Len(fs[k].blocks) < 2

SigsOf(mod) == {to_string(mod, functions[mod][k]) : k \in 1..Len(functions[mod])}

\* mods_funcs: signature -> module, a later module of `others` replacing an
\* earlier one under the same signature
mods_funcs(others) ==
    [sig \in UNION {SigsOf(others[k]) : k \in 1..Len(others)} |->
        others[CHOOSE k \in 1..Len(others) :
                  /\ sig \in SigsOf(others[k])
                  /\ \A j \in 1..Len(others) : sig \in SigsOf(others[j]) => j <= k]]

is_call(op) == op \in {"call", "call_only", "call_last"}

is_call_ext(op) == op \in {"call_ext", "call_ext_last", "call_ext_only"}

is_select(op) == op \in {"select_val", "select_tuple_arity"}

\* cases: the pairs (operands[2][2i], operands[2][2i+1])
cases(inst) ==
    LET items == inst.operands[3].items
    IN  [i \in 1..(Len(items) \div 2) |-> <<items[2 * i - 1], items[2 * i]>>]

\* St is [BB, ia, fn, raised]: the dictionaries of all modules, the
\* instruction annotations of module m, the local variable `function`
\* (<<>> while unbound) and whether an exception has left annotate.
RECURSIVE annotate_cases(_, _, _, _, _)
annotate_cases(m, b, cs, k, St) ==
    IF k > Len(cs) THEN St
    ELSE LET value == cs[k][1]
             label == cs[k][2]
         IN  IF label.v \notin DOMAIN St.BB[m]
             THEN [St EXCEPT !.raised = TRUE]
             ELSE annotate_cases(m, b, cs, k + 1,
                      [St EXCEPT !.BB[m][label.v] =
                          add_annotation(@, Annotation("Case", get_value(value), b))])

annotate_inst(m, fl, mf, b, i, St) ==
    LET inst == code[m][i]
    IN  IF is_call(inst.op)
        THEN IF inst.operands[2].v \in DOMAIN fl
             THEN [St EXCEPT !.ia[i] =
                      Append(@, Annotation("Calls", to_string(m, fl[inst.operands[2].v]), 0))]
             ELSE St
        ELSE IF is_call_ext(inst.op)
        THEN IF inst.operands[2].v >= Len(ImportTable(m))
             THEN St
             ELSE LET ext_func == get_import_str(m, inst.operands[2].v)
                  IN  IF ext_func \in DOMAIN mf /\ St.fn # <<>>
                      THEN [St EXCEPT !.BB = add_function_caller(mf[ext_func], @, ext_func,
                                                  to_string(m, St.fn[1])).BB]
                      ELSE St
        ELSE IF is_select(inst.op)
        THEN annotate_cases(m, b, cases(inst), 1, St)
        ELSE St

RECURSIVE annotate_insts(_, _, _, _, _, _)
annotate_insts(m, fl, mf, b, j, St) ==
    IF j > Len(St.BB[m][b].insts) \/ St.raised THEN St
    ELSE annotate_insts(m, fl, mf, b, j + 1,
                        annotate_inst(m, fl, mf, b, St.BB[m][b].insts[j], St))

RECURSIVE annotate_blocks(_, _, _, _, _, _)
annotate_blocks(m, fl, mf, order, k, St) ==
    IF k > Len(order) \/ St.raised THEN St
    ELSE LET b   == order[k]
             St1 == IF b \in DOMAIN fl
                    THEN [St EXCEPT
                            !.fn = <<fl[b]>>,
                            !.BB[m][b] = add_annotation(@,
                                Annotation("Function", to_string(m, fl[b]), 0))]
                    ELSE St
         IN  annotate_blocks(m, fl, mf, order, k + 1, annotate_insts(m, fl, mf, b, 1, St1))

annotate(m, others) ==
    LET fs == functions[m]
        St == [BB |-> blocks, ia |-> instAnn[m],
               fn |-> IF fs = <<>> THEN <<>> ELSE <<fs[Len(fs)]>>, raised |-> FALSE]
    IN  IF func_labels_raises(fs) THEN [St EXCEPT !.raised = TRUE]
        ELSE annotate_blocks(m, func_labels(fs), mods_funcs(others),
                             enumerate(blocks[m]), 1, St)

Annotate(m, others) ==
    /\ calls < MaxCalls
    /\ phase[m] = "analyzed"
    /\ \A k \in 1..Len(others) : phase[others[k]] = "analyzed"
    /\ LET St == annotate(m, others)
       IN  /\ blocks' = St.BB
           /\ instAnn' = [instAnn EXCEPT ![m] = St.ia]
           /\ annResult' = [annResult EXCEPT ![m] = IF St.raised THEN "IndexError" ELSE "ok"]
    /\ lastCall' = <<m, others>>
    /\ calls' = calls + 1
    /\ UNCHANGED <<code, phase, functions, merge, graph, containerVars, termVars, driverVars>>

(***************************************************************************)
(* Beamalyzer.__str__ with CodeBlock.to_string and BeamInst.format: the    *)
(* module name, then per block in label order its annotations, external    *)
(* callers, incoming labels, label, and per instruction its annotations    *)
(* and the instruction.                                                    *)
(***************************************************************************)
block_to_string(m, blk) ==
    [annotations |-> blk.annotations, external |-> blk.external,
     ingoing |-> blk.ingoing, label |-> blk.label,
     insts |-> [j \in 1..Len(blk.insts) |->
                  [annotations |-> instAnn[m][blk.insts[j]], inst |-> code[m][blk.insts[j]]]]]

Render(m) ==
    LET order == enumerate(blocks[m])
    IN  [name |-> get_atom(m, 1),
         blocks |-> [k \in 1..Len(order) |-> block_to_string(m, blocks[m][order[k]])]]

\* BeamFile.generate_assembly: one line per instruction of the code section,
\* which BeamInst.format starts with the annotations of the instruction
generate_assembly(m) ==
    [i \in 1..Len(code[m]) |-> [annotations |-> instAnn[m][i], inst |-> code[m][i]]]

(***************************************************************************)
(* SpecAnnotate: two modules whose code sections are runs of blocks        *)
(* labelled 1, 2, ... as a compiler emits them.  The blocks of module 1    *)
(* take any of the bodies of AnnotBodies; module 2 is one of PeerCodes.    *)
(* Both are analyzed, then annotate is called on either module, with the   *)
(* default peer list or with all analyzers as disassemble_beams passes     *)
(* them, up to MaxCalls times.                                             *)
(***************************************************************************)
AnnotBodies ==
    { <<>>,
      <<BeamInstFuncInfo(1, 2, 0)>>,
      <<BeamInstFuncInfo(1, 3, 0), BeamInstCallExt(0, 0), BeamInstCall(0, 2)>>,
      <<BeamInstSelectVal(0, <<2, 3>>), BeamInstCallExt(0, 1)>> }

AnnotCodes(n) == {FlattenBlocks(bodies, 1) : bodies \in SeqsUpTo(AnnotBodies, n)}

\* two functions g and f of two blocks each, g calling B:f/0
TwoFunctions ==
    FlattenBlocks(<< <<BeamInstFuncInfo(1, 3, 0), BeamInstCallExt(0, 0), BeamInstCall(0, 2)>>,
                     <<>>, <<BeamInstFuncInfo(1, 2, 0)>>, <<BeamInstReturn>> >>, 1)

\* module 2: empty, f of one block, f of two blocks, f twice
PeerCodes ==
    { <<>>,
      FlattenBlocks(<< <<BeamInstFuncInfo(1, 2, 0)>> >>, 1),
      FlattenBlocks(<< <<BeamInstFuncInfo(1, 2, 0)>>, <<BeamInstCallExt(0, 0)>> >>, 1),
      FlattenBlocks(<< <<BeamInstFuncInfo(1, 2, 0)>>, <<>>,
                       <<BeamInstFuncInfo(1, 2, 0)>>, <<BeamInstReturn>> >>, 1) }

PeerLists == {<<>>, <<1, 2>>}

InitAnnotate ==
    \E c1 \in AnnotCodes(MaxBlocks) \cup {TwoFunctions}, c2 \in PeerCodes : InitAnalysis(c1, c2)

NextAnnotate ==
    \/ \E m \in Modules : Analyze(m)
    \/ \E m \in Modules, others \in PeerLists : Annotate(m, others)

SpecAnnotate == InitAnnotate /\ [][NextAnnotate]_vars

(***************************************************************************)
(* Beamalyzer.__init__ step by step.  graph.stack holds the calls of       *)
(* graph_block in progress, the innermost last; a call is at the head of   *)
(* its loop over the blocks ("block"), at target t of instruction j of the *)
(* block ("target"), or behind add_out_link and the recursive call it may  *)
(* have made ("link").  graph.fn counts the functions whose graph_function *)
(* has returned.                                                           *)
(***************************************************************************)
Frame(todo) == [todo |-> todo, k |-> 1, j |-> 1, t |-> 1, prev |-> <<>>, at |-> "block"]

Top == graph.stack[Len(graph.stack)]

\* the stack with its innermost call replaced
WithTop(frame) == [graph.stack EXCEPT ![Len(graph.stack)] = frame]

\* the block, the instruction and the target the innermost call is at
TopBlock == Top.todo[Top.k]

TopInst(m) == blocks[m][TopBlock].insts[Top.j]

TopTargets(m) == jump_targets(code[m][TopInst(m)])

GraphUnchanged ==
    UNCHANGED <<code, instAnn, annResult, lastCall, calls, merge, containerVars, termVars,
                driverVars>>

\* CodeItemizer(module) and find_functions()
GraphItemize(m) ==
    /\ phase[m] = "parsed"
    /\ \E B0 \in {parse_code_blocks(code[m])} :
          /\ blocks' = [blocks EXCEPT ![m] = B0]
          /\ \E fs \in {find_functions(code[m], B0)} : functions' = [functions EXCEPT ![m] = fs]
    /\ phase' = [phase EXCEPT ![m] = "graphing"]
    /\ graph' = [fn |-> 0, stack |-> <<>>]
    /\ GraphUnchanged

\* graph_function(function): graph_block(function, function.blocks[1:])
GraphFunction(m) ==
    /\ phase[m] = "graphing"
    /\ graph.stack = <<>>
    /\ graph.fn < Len(functions[m])
    /\ graph' = [graph EXCEPT !.stack =
                    <<Frame(SubSeq(functions[m][graph.fn + 1].blocks, 2,
                                   Len(functions[m][graph.fn + 1].blocks)))>>]
    /\ UNCHANGED <<phase, blocks, functions>>
    /\ GraphUnchanged

\* the head of the loop over the blocks: get_block, which raises IndexError
\* for a label that is no block, and the chaining of the previous block
GraphBlock(m) ==
    /\ phase[m] = "graphing"
    /\ graph.stack # <<>>
    /\ Top.at = "block"
    /\ Top.k <= Len(Top.todo)
    /\ IF TopBlock \notin DOMAIN blocks[m]
       THEN /\ graph' = [graph EXCEPT !.stack = WithTop([Top EXCEPT !.k = @ + 1])]
            /\ UNCHANGED blocks
       ELSE /\ graph' = [graph EXCEPT !.stack =
                            WithTop([Top EXCEPT !.at = "target", !.j = 1, !.t = 1])]
            /\ blocks' = IF Top.prev # <<>>
                         THEN [blocks EXCEPT ![m][Top.prev[1]] = set_next(@, TopBlock)]
                         ELSE blocks
    /\ UNCHANGED <<phase, functions>>
    /\ GraphUnchanged

\* the loop over the blocks has ended: graph_block returns
GraphReturn(m) ==
    /\ phase[m] = "graphing"
    /\ graph.stack # <<>>
    /\ Top.at = "block"
    /\ Top.k > Len(Top.todo)
    /\ graph' = [fn |-> IF Len(graph.stack) = 1 THEN graph.fn + 1 ELSE graph.fn,
                 stack |-> SubSeq(graph.stack, 1, Len(graph.stack) - 1)]
    /\ UNCHANGED <<phase, blocks, functions>>
    /\ GraphUnchanged

\* add_out_link(inst, target), and graph_block(function, [target]) when the
\* pair is new
GraphTarget(m) ==
    /\ phase[m] = "graphing"
    /\ graph.stack # <<>>
    /\ Top.at = "target"
    /\ Top.j <= Len(blocks[m][TopBlock].insts)
    /\ Top.t <= Len(TopTargets(m))
    /\ blocks' = [blocks EXCEPT ![m][TopBlock] = add_out_link(@, TopInst(m), TopTargets(m)[Top.t])]
    /\ graph' = [graph EXCEPT !.stack =
                    IF InSeq(<<TopInst(m), TopTargets(m)[Top.t]>>, blocks[m][TopBlock].outgoing)
                    THEN WithTop([Top EXCEPT !.at = "link"])
                    ELSE Append(WithTop([Top EXCEPT !.at = "link"]),
                                Frame(<<TopTargets(m)[Top.t]>>))]
    /\ UNCHANGED <<phase, functions>>
    /\ GraphUnchanged

\* get_block(target), which raises IndexError out of the block, and
\* add_in_link
GraphLink(m) ==
    /\ phase[m] = "graphing"
    /\ graph.stack # <<>>
    /\ Top.at = "link"
    /\ IF TopTargets(m)[Top.t] \notin DOMAIN blocks[m]
       THEN /\ graph' = [graph EXCEPT !.stack = WithTop([Top EXCEPT !.at = "block", !.k = @ + 1])]
            /\ UNCHANGED blocks
       ELSE /\ graph' = [graph EXCEPT !.stack = WithTop([Top EXCEPT !.at = "target", !.t = @ + 1])]
            /\ blocks' = [blocks EXCEPT ![m][TopTargets(m)[Top.t]] = add_in_link(@, TopBlock)]
    /\ UNCHANGED <<phase, functions>>
    /\ GraphUnchanged

\* the targets of the instruction are done: the next instruction
GraphInst(m) ==
    /\ phase[m] = "graphing"
    /\ graph.stack # <<>>
    /\ Top.at = "target"
    /\ Top.j <= Len(blocks[m][TopBlock].insts)
    /\ Top.t > Len(TopTargets(m))
    /\ graph' = [graph EXCEPT !.stack = WithTop([Top EXCEPT !.j = @ + 1, !.t = 1])]
    /\ UNCHANGED <<phase, blocks, functions>>
    /\ GraphUnchanged

\* the instructions of the block are done: prev_block = current_block
GraphBlockDone(m) ==
    /\ phase[m] = "graphing"
    /\ graph.stack # <<>>
    /\ Top.at = "target"
    /\ Top.j > Len(blocks[m][TopBlock].insts)
    /\ graph' = [graph EXCEPT !.stack =
                    WithTop([Top EXCEPT !.at = "block", !.k = @ + 1, !.prev = <<TopBlock>>])]
    /\ UNCHANGED <<phase, blocks, functions>>
    /\ GraphUnchanged

\* every function is graphed: Beamalyzer.__init__ returns
GraphDone(m) ==
    /\ phase[m] = "graphing"
    /\ graph.stack = <<>>
    /\ graph.fn = Len(functions[m])
    /\ phase' = [phase EXCEPT ![m] = "analyzed"]
    /\ UNCHANGED <<blocks, functions, graph>>
    /\ GraphUnchanged

(***************************************************************************)
(* SpecGraphSteps: module 1 is a run of at most MaxStepBlocks + 1 blocks   *)
(* labelled 1, 2, ...; the first holds a func_info, the others any of the  *)
(* bodies of StepBodies: jumps to themselves, to each other, into another  *)
(* function and to labels that are no block.  The analyzer is built step   *)
(* by step, and a step is taken as long as one is possible.                *)
(***************************************************************************)
StepBodies ==
    {<<>>, <<BeamInstFuncInfo(1, 3, 0)>>, <<BeamInstSelectVal(0, <<2, 3>>)>>}
    \cup {<<BeamInstJump(t)>> : t \in 1..(MaxStepBlocks + 1)}

StepCodes ==
    {FlattenBlocks(<< <<BeamInstFuncInfo(1, 2, 0)>> >> \o bodies, 1) :
        bodies \in SeqsUpTo(StepBodies, MaxStepBlocks)}

InitGraphSteps == \E c \in StepCodes : InitAnalysis(c, <<>>)

NextGraphSteps ==
    \/ GraphItemize(1)
    \/ GraphFunction(1)
    \/ GraphBlock(1)
    \/ GraphReturn(1)
    \/ GraphTarget(1)
    \/ GraphLink(1)
    \/ GraphInst(1)
    \/ GraphBlockDone(1)
    \/ GraphDone(1)

SpecGraphSteps == InitGraphSteps /\ [][NextGraphSteps]_vars /\ WF_vars(NextGraphSteps)

\* the block and the (instruction, target) pair at which call n of the
\* stack waits for the call above it
WaitsAt(m, n) ==
    LET f == graph.stack[n]
        i == blocks[m][f.todo[f.k]].insts[f.j]
    IN  [block |-> f.todo[f.k], pair |-> <<i, jump_targets(code[m][i])[f.t]>>]

\* every call of graph_block above the first was made for an outgoing pair
\* that is recorded, and no two of them for the same pair of the same block
RecursesOnNewPairs(m) ==
    /\ \A n \in 1..(Len(graph.stack) - 1) :
          /\ graph.stack[n].at = "link"
          /\ graph.stack[n + 1].todo = <<WaitsAt(m, n).pair[2]>>
          /\ InSeq(WaitsAt(m, n).pair, blocks[m][WaitsAt(m, n).block].outgoing)
    /\ \A n1 \in 1..(Len(graph.stack) - 1) : \A n2 \in 1..(Len(graph.stack) - 1) :
          WaitsAt(m, n1) = WaitsAt(m, n2) => n1 = n2

\* the analyzer built step by step is the one Analyze builds
StepsAgree ==
    phase[1] = "analyzed" =>
        /\ functions[1] = find_functions(code[1], parse_code_blocks(code[1]))
        /\ blocks[1] = graph_functions(code[1], functions[1], 1, parse_code_blocks(code[1]))

beams_built == [k \in 1..Cardinality({m \in Modules : phase[m] = "analyzed"}) |-> k]

\* one loop over the modules that analyzes, annotates and writes each module
\* before it turns to the next
disassemble_loop_per_module ==
    IF \E m \in Modules : annResult[m] = "IndexError" THEN "raised"
    ELSE IF calls < Len(beams_built) THEN "annotate"
    ELSE IF Len(written) < Len(beams_built) THEN "write"
    ELSE IF Len(beams_built) < Cardinality(Modules) THEN "analyze"
    ELSE "done"

\* the loop of disassemble_beams that runs next; an exception of annotate
\* leaves the function
disassemble_loop ==
    IF \E m \in Modules : annResult[m] = "IndexError" THEN "raised"
    ELSE IF Len(beams_built) < Cardinality(Modules) THEN "analyze"
    ELSE IF calls < Len(beams_built) THEN "annotate"
    ELSE IF Len(written) < Len(beams_built) THEN "write"
    ELSE "done"

\* beams.append(Beamalyzer(beam))
DisassembleAnalyze ==
    /\ disassemble_loop = "analyze"
    /\ Analyze(Len(beams_built) + 1)

\* beam.annotate(beams)
DisassembleAnnotate ==
    /\ disassemble_loop = "annotate"
    /\ Annotate(beams_built[calls + 1], beams_built)

\* f.write(str(beam))
DisassembleWrite ==
    /\ disassemble_loop = "write"
    /\ written' = Append(written, [module |-> beams_built[Len(written) + 1],
                                   text |-> Render(beams_built[Len(written) + 1])])
    /\ UNCHANGED <<argv, beamsFound, exitStatus, analysisVars, containerVars, termVars>>

\* code sections of either module: those of PeerCodes, g and f of two
\* blocks each
DisassembleCodes == PeerCodes \cup {TwoFunctions}

InitDisassemble == \E c1 \in DisassembleCodes, c2 \in DisassembleCodes : InitAnalysis(c1, c2)

NextDisassemble ==
    \/ DisassembleAnalyze
    \/ DisassembleAnnotate
    \/ DisassembleWrite

SpecDisassemble == InitDisassemble /\ [][NextDisassemble]_vars

\* the written text of module m
TextOf(m) == written[CHOOSE k \in 1..Len(written) : written[k].module = m].text

IsWritten(m) == \E k \in 1..Len(written) : written[k].module = m

\* the external callers the text shows above the block labelled l
ExternalShown(text, l) ==
    UNION {{text.blocks[k].external[j] : j \in 1..Len(text.blocks[k].external)} :
              k \in {x \in 1..Len(text.blocks) : text.blocks[x].label = l}}

\* module p holds a call_ext whose import is the signature of the function
\* of module m that starts at label entry
CallsInto(p, m, entry) ==
    \E i \in 1..Len(code[p]) :
        /\ is_call_ext(code[p][i].op)
        /\ code[p][i].operands[2].v < Len(ImportTable(p))
        /\ \E k \in 1..Len(functions[m]) :
              /\ to_string(m, functions[m][k]) = get_import_str(p, code[p][i].operands[2].v)
              /\ Len(functions[m][k].blocks) >= 2
              /\ functions[m][k].blocks[2] = entry
              /\ \A j \in 1..(k - 1) :
                    to_string(m, functions[m][j]) # to_string(m, functions[m][k])

\* C26 (phases of the driver): in disassemble_beams no module is annotated
\* before every input module is analyzed, every annotate call is given the
\* list of all analyzers as peers, no text is written before every module
\* is annotated, and the text written for a module shows, above the entry
\* block of each of its functions that a call_ext of a module calls, an
\* external caller that is a function of the calling module: the text is
\* the rendering of the module after all annotate calls, whichever of the
\* two modules comes first.
C26_PhaseOrdering ==
    /\ \A m \in Modules : annResult[m] # "none" => \A n \in Modules : Analyzed(n)
    /\ lastCall # <<>> => lastCall[2] = [k \in 1..Cardinality(Modules) |-> k]
    /\ written # <<>> => \A n \in Modules : annResult[n] = "ok"
    /\ \A m \in Modules : IsWritten(m) =>
          /\ TextOf(m) = Render(m)
          /\ \A p \in Modules : \A entry \in DOMAIN blocks[m] :
                (CallsInto(p, m, entry) /\ functions[p] # <<>>) =>
                    \E g \in 1..Len(functions[p]) :
                        to_string(p, functions[p][g]) \in ExternalShown(TextOf(m), entry)

\* both modules are written and the text of the first shows a caller of
\* the second, which was annotated after it
C26_Witness ==
    /\ Len(written) = Cardinality(Modules)
    /\ \E entry \in DOMAIN blocks[1] :
          /\ CallsInto(2, 1, entry)
          /\ \E g \in 1..Len(functions[2]) :
                to_string(2, functions[2][g]) \in ExternalShown(TextOf(1), entry)

(***************************************************************************)
(* Properties of annotation.                                               *)
(***************************************************************************)
\* C4 (annotation idempotence): when annotate is called on a module with the
\* peer list of the call just before it, which was a call on the same module
\* that returned, the rendering of the module is the same after the call as
\* before it.
C4_AnnotationIdempotence ==
    [][(/\ calls' = calls + 1
        /\ lastCall # <<>>
        /\ lastCall' = lastCall
        /\ annResult[lastCall[1]] = "ok")
       => Render(lastCall[1])' = Render(lastCall[1])]_vars

\* C9 (annotation is never fatal): no annotate call leaves with an exception.
C9_AnnotateNeverFatal == \A m \in Modules : annResult[m] # "IndexError"

\* the function of module m whose block list contains block b
EnclosingFunctions(m, b) ==
    {k \in 1..Len(functions[m]) : InSeq(b, functions[m][k].blocks)}

\* C10 (external-call cross-reference): after annotate on module A with
\* peers `others` has returned, for every call_ext instruction in a block b
\* of A whose import resolves to the signature of a function of a peer B with
\* at least two blocks, the second block of B's first function of that
\* signature lists as external caller the signature of the function of A
\* whose block list contains b.
C10_ExternalCallXref ==
    (lastCall # <<>> /\ annResult[lastCall[1]] = "ok") =>
        LET A == lastCall[1]
            others == lastCall[2]
        IN  \A b \in DOMAIN blocks[A] : \A j \in 1..Len(blocks[A][b].insts) :
              LET inst == code[A][blocks[A][b].insts[j]]
              IN  (is_call_ext(inst.op) /\ inst.operands[2].v < Len(ImportTable(A))) =>
                    \A x \in 1..Len(others) :
                      LET B == others[x]
                          sig == get_import_str(A, inst.operands[2].v)
                          fsB == {k \in 1..Len(functions[B]) :
                                     to_string(B, functions[B][k]) = sig}
                      IN  (fsB # {} /\ \A k \in fsB : Len(functions[B][k].blocks) >= 2) =>
                            LET first == CHOOSE k \in fsB : \A k2 \in fsB : k <= k2
                                entry == functions[B][first].blocks[2]
                            IN  \A g \in EnclosingFunctions(A, b) :
                                  InSeq(to_string(A, functions[A][g]),
                                        blocks[B][entry].external)

\* C17 (parsed model immutability): no step taken after the construction of
\* the BeamFile of a module (building its Beamalyzer, an annotate call on any
\* module with any peers) changes the instructions of its code section or
\* their annotations, so generate_assembly returns the same text after the
\* step as before it.
C17_ParsedModelImmutable ==
    [][\A m \in Modules :
         /\ code'[m] = code[m]
         /\ instAnn'[m] = instAnn[m]
         /\ generate_assembly(m)' = generate_assembly(m)]_vars

\* the block without its external-caller list
WithoutExternal(blk) == [blk EXCEPT !.external = <<>>]

\* C11 (frame of cross-module annotation): an annotate call on a module A
\* changes, in every module B other than A, nothing but the external-caller
\* lists of B's blocks: B's code section, function list, instruction
\* annotations and set of blocks are the same after the call, and so are the
\* instruction list, edges, next pointer and annotations of each block of B.
C11_AnnotateFrame ==
    [][\A B \in Modules :
         (calls' = calls + 1 /\ B # lastCall'[1]) =>
            /\ code'[B] = code[B]
            /\ functions'[B] = functions[B]
            /\ instAnn'[B] = instAnn[B]
            /\ DOMAIN blocks'[B] = DOMAIN blocks[B]
            /\ \A l \in DOMAIN blocks[B] :
                  WithoutExternal(blocks'[B][l]) = WithoutExternal(blocks[B][l])]_vars

\* one annotate call has been made, on a module A, and a block of another
\* module has received an external caller
C11_Witness ==
    /\ calls = 1
    /\ annResult[lastCall[1]] = "ok"
    /\ \E B \in Modules \ {lastCall[1]} : \E l \in DOMAIN blocks[B] :
          blocks[B][l].external # <<>>

\* s is the beginning of t
IsPrefix(s, t) == Len(s) <= Len(t) /\ SubSeq(t, 1, Len(s)) = s

\* no element is held twice
NoDuplicate(s) == \A i \in 1..Len(s) : \A j \in 1..Len(s) : s[i] = s[j] => i = j

\* the lists of a block grow at the end only, from old to new, and an element
\* the list holds is not added again
GrowsOnce(old, new) == IsPrefix(old, new) /\ (NoDuplicate(old) => NoDuplicate(new))

\* C22 (CodeBlock state is append-only, re-addition is a no-op): across every
\* analysis and annotation step each block keeps its incoming links,
\* outgoing (instruction, target) pairs, external callers and annotations
\* in place, new ones are added at the end, and none that the block already
\* holds is added a second time.
C22_BlockAppendOnly ==
    [][\A m \in Modules : \A l \in (DOMAIN blocks[m]) \cap (DOMAIN blocks'[m]) :
          /\ GrowsOnce(blocks[m][l].ingoing, blocks'[m][l].ingoing)
          /\ GrowsOnce(blocks[m][l].outgoing, blocks'[m][l].outgoing)
          /\ GrowsOnce(blocks[m][l].external, blocks'[m][l].external)
          /\ GrowsOnce(blocks[m][l].annotations, blocks'[m][l].annotations)]_vars

(***************************************************************************)
(* Byte streams (file objects, io.BytesIO) and Python values.  A payload   *)
(* is a Python int or a Python bytes object, which never compare equal.    *)
(***************************************************************************)
Min(a, b) == IF a < b THEN a ELSE b

\* f.read(n) at position p: at the end of the stream fewer than n bytes
read(src, p, n) == SubSeq(src, p + 1, Min(p + n, Len(src)))

IntPayload(n) == [kind |-> "int", n |-> n, b |-> <<>>]

BytesPayload(b) == [kind |-> "bytes", n |-> 0, b |-> b]

Term(t, payload, items) == [t |-> t, payload |-> payload, items |-> items]

NoValue == Term("none", IntPayload(0), <<>>)

\* an exception leaves the reader / the reader returns a term
Raise(exc, p) == [exc |-> exc, term |-> NoValue, pos |-> p]

Return(term, p) == [exc |-> "none", term |-> term, pos |-> p]

(***************************************************************************)
(* types.py: the constructors of the basic types.                          *)
(***************************************************************************)
RECURSIVE bytes_to_int_from(_, _, _)
bytes_to_int_from(b, i, value) ==
    IF i > Len(b) THEN value ELSE bytes_to_int_from(b, i + 1, value * 256 + b[i])

bytes_to_int(b) == bytes_to_int_from(b, 1, 0)

RECURSIVE Pow256(_)
Pow256(i) == IF i = 0 THEN 1 ELSE 256 * Pow256(i - 1)

\* BeamInteger.__init__ on bytes: the sum of (256**i) * value[len-1-i]; a
\* zero byte adds nothing whatever its weight
RECURSIVE integer_sum(_, _)
integer_sum(value, i) ==
    IF i < 0 THEN 0
    ELSE (IF value[Len(value) - i] = 0 THEN 0 ELSE Pow256(i) * value[Len(value) - i])
         + integer_sum(value, i - 1)

BeamInteger(value) ==
    IF value.kind = "int" THEN IntPayload(value.n)
    ELSE IntPayload(integer_sum(value.b, Len(value.b) - 1))

\* BeamLiteral, BeamLabel and BeamAtom convert bytes with bytes_to_int
BeamLiteral(index) ==
    IF index.kind = "int" THEN IntPayload(index.n) ELSE IntPayload(bytes_to_int(index.b))

\* BeamXReg, BeamYReg and BeamChar store their argument as it is
BeamXReg(index) == index

(***************************************************************************)
(* utils.py: BeamCompactTerm.                                              *)
(***************************************************************************)
TYPE_EXT_LIST == 23

TYPE_EXT_FPREG == 39

TYPE_EXT_ALST == 55

TYPE_EXT_LIT == 71

TYPE_EXT_TYPED_REG == 87

decode_value(value, value_type, p) ==
    CASE value_type = 0 -> Return(Term("Literal", BeamLiteral(value), <<>>), p)
      [] value_type = 1 -> Return(Term("Integer", BeamInteger(value), <<>>), p)
      [] value_type = 2 -> Return(Term("Atom", BeamLiteral(value), <<>>), p)
      [] value_type = 3 -> Return(Term("XReg", BeamXReg(value), <<>>), p)
      [] value_type = 4 -> Return(Term("YReg", BeamXReg(value), <<>>), p)
      [] value_type = 5 -> Return(Term("Label", BeamLiteral(value), <<>>), p)
      [] value_type = 6 -> Return(Term("Char", BeamXReg(value), <<>>), p)
      [] OTHER -> Raise("UnsupportedBeamCompactTerm", p)

\* isinstance(term, BeamLiteral): BeamLabel is a subclass of BeamLiteral
is_literal(term) == term.t \in {"Literal", "Label"}

\* term.index used as a number: BeamInteger, BeamChar, the lists and the
\* typed register have no attribute index; the index of atom 0 is a BeamNIL
\* object and a register may hold bytes, neither of which is a number
\* (bytesExc: TypeError for `+ 9`, ValueError for int(), a byte string of
\* ASCII digits aside).
index_number(term, bytesExc) ==
    IF term.t \notin {"Literal", "Label", "Atom", "XReg", "YReg", "FpReg"}
    THEN [exc |-> "AttributeError", n |-> 0]
    ELSE IF term.t = "Atom" /\ term.payload.n = 0 THEN [exc |-> "TypeError", n |-> 0]
    ELSE IF term.payload.kind = "bytes" THEN [exc |-> bytesExc, n |-> 0]
    ELSE [exc |-> "none", n |-> term.payload.n]

RECURSIVE read_term(_, _)
RECURSIVE read_terms(_, _, _, _)
RECURSIVE pairs_of(_)

\* count successive read_term calls; the terms read are in .term.items
read_terms(src, p, count, acc) ==
    IF count <= 0 THEN Return(Term("terms", IntPayload(0), acc), p)
    ELSE LET r == read_term(src, p)
         IN  IF r.exc # "none" THEN r
             ELSE read_terms(src, r.pos, count - 1, Append(acc, r.term))

pairs_of(items) ==
    IF Len(items) < 2 THEN <<>>
    ELSE <<Term("pair", IntPayload(0), <<items[1], items[2]>>)>>
         \o pairs_of(SubSeq(items, 3, Len(items)))

decode_ext(src, p, value_type) ==
    IF value_type = TYPE_EXT_TYPED_REG
    THEN LET r == read_terms(src, p, 2, <<>>)
         IN  IF r.exc # "none" THEN r
             ELSE Return(Term("TypedReg", IntPayload(0), r.term.items), r.pos)
    ELSE IF value_type = TYPE_EXT_LIT
    THEN LET literal == read_term(src, p)
         IN  IF literal.exc # "none" THEN literal
             ELSE IF is_literal(literal.term) THEN literal
             ELSE Raise("UnsupportedBeamCompactTerm", literal.pos)
    ELSE IF value_type \in {TYPE_EXT_LIST, TYPE_EXT_ALST}
    THEN LET literal == read_term(src, p)
         IN  IF literal.exc # "none" THEN literal
             ELSE LET count == index_number(literal.term, "ValueError")
                  IN  IF count.exc # "none" THEN Raise(count.exc, literal.pos)
                      ELSE IF value_type = TYPE_EXT_LIST
                      THEN LET r == read_terms(src, literal.pos, count.n, <<>>)
                           IN  IF r.exc # "none" THEN r
                               ELSE Return(Term("ExtList", IntPayload(0), r.term.items), r.pos)
                      ELSE LET r == read_terms(src, literal.pos, 2 * count.n, <<>>)
                           IN  IF r.exc # "none" THEN r
                               ELSE Return(Term("ExtAllocList", IntPayload(0),
                                                pairs_of(r.term.items)), r.pos)
    ELSE IF value_type = TYPE_EXT_FPREG
    THEN LET literal == read_term(src, p)
         IN  IF literal.exc # "none" THEN literal
             ELSE IF is_literal(literal.term)
             THEN Return(Term("FpReg", literal.term.payload, <<>>), literal.pos)
             ELSE Raise("UnsupportedBeamCompactTerm", literal.pos)
    ELSE Raise("UnsupportedBeamCompactTerm", p)

\* ord(source.read(1)) raises TypeError at the end of the stream
read_term(src, p) ==
    IF p >= Len(src) THEN Raise("TypeError", p)
    ELSE LET b0 == src[p + 1]
         IN  IF b0 % 8 = 7 THEN decode_ext(src, p + 1, b0)
             ELSE LET value_type == b0 % 8
                  IN  IF (b0 \div 8) % 2 = 1
                      THEN IF (b0 \div 16) % 2 = 1
                           THEN IF b0 \div 32 = 7
                                THEN LET l == read_term(src, p + 1)
                                     IN  IF l.exc # "none" THEN l
                                         ELSE LET idx == index_number(l.term, "TypeError")
                                              IN  IF idx.exc # "none" THEN Raise(idx.exc, l.pos)
                                                  ELSE LET value == read(src, l.pos, idx.n + 9)
                                                       IN  decode_value(BytesPayload(value), value_type,
                                                                        l.pos + Len(value))
                                ELSE LET value == read(src, p + 1, (b0 \div 32) + 2)
                                     IN  decode_value(BytesPayload(value), value_type,
                                                      p + 1 + Len(value))
                           ELSE IF p + 1 >= Len(src) THEN Raise("TypeError", p + 1)
                                ELSE decode_value(IntPayload((b0 \div 32) * 256 + src[p + 2]),
                                                  value_type, p + 2)
                      ELSE decode_value(IntPayload(b0 \div 16), value_type, p + 1)

(***************************************************************************)
(* The compact-term encoder.  It is not part of the package; it is written *)
(* from the description of the four payload forms, the inverse of the      *)
(* reader: the tag is in the low three bits, byte strings are big-endian   *)
(* and an Integer carries its sign in the high bit of the first byte.      *)
(***************************************************************************)
BaseTypes == <<"Literal", "Integer", "Atom", "XReg", "YReg", "Label", "Char">>

TypeTag(t) == (CHOOSE i \in 1..Len(BaseTypes) : BaseTypes[i] = t) - 1

RECURSIVE BigEndian(_, _)
BigEndian(n, k) == IF k = 0 THEN <<>> ELSE BigEndian(n \div 256, k - 1) \o <<n % 256>>

SignMagnitude(n, k) ==
    IF n < 0 THEN [BigEndian(-n, k) EXCEPT ![1] = @ + 128] ELSE BigEndian(n, k)

encode(g) ==
    CASE g.form = "imm4" -> <<g.n * 16 + TypeTag(g.t)>>
      [] g.form = "imm11" -> <<(g.n \div 256) * 32 + 8 + TypeTag(g.t), g.n % 256>>
      [] g.form = "string" -> <<(g.k - 2) * 32 + 24 + TypeTag(g.t)>> \o SignMagnitude(g.n, g.k)
      [] g.form = "extended" ->
            <<7 * 32 + 24 + TypeTag(g.t), (g.k - 9) * 16>> \o SignMagnitude(g.n, g.k)

\* n fits the k-byte string of a value of type t; the negative payloads are
\* put in strings of at most 3 bytes, which the reader turns into numbers
\* below 2^31
Fits(t, n, k) ==
    LET mag == IF n < 0 THEN -n ELSE n
    IN  /\ n < 0 => (t = "Integer" /\ k <= 3)
        /\ k >= 4 \/ mag < (IF t = "Integer" THEN Pow256(k) \div 2 ELSE Pow256(k))

Legal(g) ==
    CASE g.form = "imm4" -> g.k = 0 /\ g.n \in 0..15
      [] g.form = "imm11" -> g.k = 0 /\ g.n \in 0..2047
      [] g.form = "string" -> g.k \in 2..MaxStringLen /\ g.k <= 8 /\ Fits(g.t, g.n, g.k)
      [] g.form = "extended" -> g.k \in 9..10 /\ Fits(g.t, g.n, g.k)

Payloads == {-256, -1, 0, 1, 15, 16, 255, 256, 2047, 2048, 65535, 65536}

TermInputs ==
    {g \in [t : {BaseTypes[i] : i \in 1..Len(BaseTypes)}, n : Payloads,
            form : {"imm4", "imm11", "string", "extended"}, k : {0} \cup 2..10] : Legal(g)}

\* the bytes that follow the encoded term in the stream
Trailer == <<19, 3>>

(***************************************************************************)
(* SpecTerm: a value of a basic type in one of the four payload forms is   *)
(* encoded, and read_term reads the stream.                                *)
(***************************************************************************)
InitTerm ==
    /\ NoAnalysis
    /\ NoContainer
    /\ NoDriver
    /\ \E g \in TermInputs :
          /\ termGiven = <<g>>
          /\ termSource = encode(g) \o Trailer
    /\ termResult = <<>>

ReadTerm ==
    /\ termGiven # <<>>
    /\ termResult = <<>>
    /\ termResult' = <<read_term(termSource, 0)>>
    /\ UNCHANGED <<termGiven, termSource, analysisVars, containerVars, driverVars>>

NextTerm == ReadTerm

SpecTerm == InitTerm /\ [][NextTerm]_vars

\* C6 (round trip of compact terms): for every base type, legal payload and
\* payload form, read_term on the encoding returns without exception a value
\* of the same type whose payload is the encoded integer, and has consumed
\* exactly the encoded bytes.
C6_CompactTermRoundTrip ==
    termResult # <<>> =>
        LET g == termGiven[1]
            r == termResult[1]
        IN  /\ r.exc = "none"
            /\ r.term.t = g.t
            /\ r.term.payload = IntPayload(g.n)
            /\ r.pos = Len(encode(g))

\* the payload bytes of the encoded term, after the tag byte (and the length
\* term of the extended form)
PayloadBytes(g, src) ==
    IF g.form = "string" THEN SubSeq(src, 2, 1 + g.k) ELSE SubSeq(src, 3, 2 + g.k)

\* C25 (sign of an Integer payload): read_term on an Integer whose payload is
\* a byte string (2..8 bytes, or length-extended) returns a negative integer
\* when the first payload byte has its high bit set, and the big-endian
\* value of the bytes, which is not negative, when that bit is clear.
C25_IntegerSign ==
    (/\ termResult # <<>>
     /\ termGiven[1].t = "Integer"
     /\ termGiven[1].form \in {"string", "extended"})
        => /\ termResult[1].exc = "none"
           /\ termResult[1].term.t = "Integer"
           /\ termResult[1].term.payload.kind = "int"
           /\ IF PayloadBytes(termGiven[1], termSource)[1] >= 128
              THEN termResult[1].term.payload.n < 0
              ELSE termResult[1].term.payload.n
                       = bytes_to_int(PayloadBytes(termGiven[1], termSource))

(***************************************************************************)
(* struct.unpack on big-endian fields: struct.error unless the buffer has  *)
(* exactly the size of the format.                                         *)
(***************************************************************************)
Value(exc, v, p) == [exc |-> exc, v |-> v, pos |-> p]

\* '>I', '>H', '>B': one unsigned field
unpack_unsigned(buf, size) ==
    IF Len(buf) # size THEN Value("struct.error", 0, 0) ELSE Value("none", bytes_to_int(buf), 0)

\* '>i': one signed 32-bit field
unpack_i(buf) ==
    IF Len(buf) # 4 THEN Value("struct.error", 0, 0)
    ELSE Value("none",
               IF buf[1] >= 128
               THEN bytes_to_int_from(buf, 2, buf[1] - 256)
               ELSE bytes_to_int(buf), 0)

\* '>III' and the like: `words` unsigned 32-bit fields
unpack_words(buf, words) ==
    IF Len(buf) # 4 * words THEN Value("struct.error", <<>>, 0)
    ELSE Value("none", [w \in 1..words |-> bytes_to_int(SubSeq(buf, 4 * w - 3, 4 * w))], 0)

(***************************************************************************)
(* sections.py: the parsers of the chunk bodies.  Each returns             *)
(* [exc, v, pos]: the exception that left it or "none", and the section.   *)
(***************************************************************************)
\* the loop of the Import, Export and Function sections: count entries of
\* `words` 32-bit fields
RECURSIVE parse_entries(_, _, _, _, _)
parse_entries(content, p, count, words, acc) ==
    IF count <= 0 THEN Value("none", acc, p)
    ELSE LET e == unpack_words(read(content, p, 4 * words), words)
         IN  IF e.exc # "none" THEN Value(e.exc, acc, p)
             ELSE parse_entries(content, p + 4 * words, count - 1, words, Append(acc, e.v))

parse_table(content, words) ==
    LET count == unpack_unsigned(read(content, 0, 4), 4)
    IN  IF count.exc # "none" THEN Value(count.exc, <<>>, 0)
        ELSE parse_entries(content, 4, count.v, words, <<>>)

BeamImportSection_parse(content) == parse_table(content, 3)

BeamExportSection_parse(content) == parse_table(content, 3)

BeamFunctionSection_parse(content) == parse_table(content, 6)

\* BeamAtomSection: the atom list starts with the placeholder b'module'
\* the length prefix of an atom: a compact term that must be a BeamLiteral
\* (is_otp28), or one byte
atom_length_term(term) ==
    IF term.exc # "none" THEN Value(term.exc, 0, term.pos)
    ELSE IF ~is_literal(term.term) THEN Value("AssertionError", 0, term.pos)
    ELSE Value("none", term.term.payload.n, term.pos)

atom_length_byte(buf, p) ==
    IF Len(buf) # 1 THEN Value("struct.error", 0, p) ELSE Value("none", buf[1], p + 1)

RECURSIVE parse_atoms(_, _, _, _, _)
RECURSIVE parse_atom(_, _, _, _, _)

parse_atom(content, atom_length, count, is_otp28, acc) ==
    IF atom_length.exc # "none" THEN Value(atom_length.exc, acc, atom_length.pos)
    ELSE parse_atoms(content,
                     atom_length.pos + Len(read(content, atom_length.pos, atom_length.v)),
                     count - 1, is_otp28,
                     Append(acc, read(content, atom_length.pos, atom_length.v)))

parse_atoms(content, p, count, is_otp28, acc) ==
    IF count <= 0 THEN Value("none", acc, p)
    ELSE parse_atom(content,
                    IF is_otp28 THEN atom_length_term(read_term(content, p))
                    ELSE atom_length_byte(read(content, p, 1), p),
                    count, is_otp28, acc)

BeamAtomSection_parse(content) ==
    LET atoms_count == unpack_i(read(content, 0, 4))
    IN  IF atoms_count.exc # "none" THEN Value(atoms_count.exc, <<>>, 0)
        ELSE parse_atoms(content, 4,
                         IF atoms_count.v < 0 THEN -atoms_count.v ELSE atoms_count.v,
                         atoms_count.v < 0, << <<109, 111, 100, 117, 108, 101>> >>)

\* BeamLineSection: the line references after the sentinel (0, 0), then the
\* file names after the placeholder
RECURSIVE parse_line_refs(_, _, _, _, _, _)
RECURSIVE parse_line_ref(_, _, _, _, _, _)

\* the body of the loop over the line references, for the term just read
parse_line_ref(content, term, i, num_line_refs, num_filenames, st) ==
    IF term.exc # "none" THEN Value(term.exc, st, term.pos)
    ELSE IF term.term.t = "Integer"
    THEN parse_line_refs(content, term.pos, i + 1, num_line_refs, num_filenames,
             [st EXCEPT !.lines = Append(@, <<st.fname_index, term.term.payload.n>>)])
    ELSE IF term.term.t = "Atom"
    THEN IF term.term.payload.n = 0 THEN Value("TypeError", st, term.pos)
         ELSE IF ~(term.term.payload.n - 1 < num_filenames)
         THEN Value("AssertionError", st, term.pos)
         ELSE parse_line_refs(content, term.pos, i, num_line_refs, num_filenames,
                  [st EXCEPT !.fname_index = term.term.payload.n - 1])
    ELSE parse_line_refs(content, term.pos, i, num_line_refs, num_filenames, st)

parse_line_refs(content, p, i, num_line_refs, num_filenames, st) ==
    IF i >= num_line_refs THEN Value("none", st, p)
    ELSE parse_line_ref(content, read_term(content, p), i, num_line_refs, num_filenames, st)

RECURSIVE parse_filenames(_, _, _, _)
parse_filenames(content, p, count, st) ==
    IF count <= 0 THEN Value("none", st, p)
    ELSE LET filename_length == unpack_unsigned(read(content, p, 2), 2)
         IN  IF filename_length.exc # "none" THEN Value(filename_length.exc, st, p)
             ELSE LET filename == read(content, p + 2, filename_length.v)
                  IN  parse_filenames(content, p + 2 + Len(filename), count - 1,
                                      [st EXCEPT !.filenames = Append(@, filename)])

\* the file names follow the line references
parse_line_filenames(content, refs, num_filenames) ==
    IF refs.exc # "none" THEN refs
    ELSE parse_filenames(content, refs.pos, num_filenames, refs.v)

BeamLineSection_parse(content) ==
    LET header == unpack_words(read(content, 0, 20), 5)
    IN  IF header.exc # "none" THEN Value(header.exc, <<>>, 0)
        ELSE parse_line_filenames(content,
                 parse_line_refs(content, 20, 0, header.v[4], header.v[5],
                     [lines |-> << <<0, 0>> >>, filenames |-> <<>>, fname_index |-> 0]),
                 header.v[5])

\* zlib.decompress raises zlib.error on a stream of fewer than two bytes and
\* on a stream whose first two bytes are not a zlib header (deflate method,
\* window of at most 32K, no preset dictionary, 16-bit value divisible by 31)
zlib_header_ok(data) ==
    /\ Len(data) >= 2
    /\ data[1] % 16 = 8
    /\ data[1] \div 16 <= 7
    /\ (data[2] \div 32) % 2 = 0
    /\ (data[1] * 256 + data[2]) % 31 = 0

\* the Adler-32 checksum as the pair <<high half, low half>>
RECURSIVE adler32_from(_, _, _, _)
adler32_from(out, i, a, b) ==
    IF i > Len(out) THEN <<b, a>>
    ELSE adler32_from(out, i + 1, (a + out[i]) % 65521, (b + a + out[i]) % 65521)

adler32(out) == adler32_from(out, 1, 1, 0)

\* the deflate blocks of a zlib stream from position p.  A stored block is
\* decoded: its header byte, LEN and NLEN (little-endian, NLEN the
\* complement of LEN), then LEN bytes.  After the final block comes the
\* Adler-32 of the output; bytes after it are ignored.  Blocks of type 3
\* are invalid; Huffman-coded blocks (types 1 and 2) are not decoded here
\* and no stream considered holds one.
RECURSIVE inflate(_, _, _)
inflate(data, p, out) ==
    IF p >= Len(data) THEN Value("zlib.error", out, p)
    ELSE IF (data[p + 1] \div 2) % 4 = 3 THEN Value("zlib.error", out, p)
    ELSE IF (data[p + 1] \div 2) % 4 # 0 THEN Value("huffman block", out, p)
    ELSE IF Len(data) < p + 5 THEN Value("zlib.error", out, p)
    ELSE LET len == data[p + 2] + 256 * data[p + 3]
             nlen == data[p + 4] + 256 * data[p + 5]
             q == p + 5 + len
         IN  IF len + nlen # 65535 \/ Len(data) < q THEN Value("zlib.error", out, p)
             ELSE IF data[p + 1] % 2 = 0 THEN inflate(data, q, out \o SubSeq(data, p + 6, q))
             ELSE IF Len(data) < q + 4 THEN Value("zlib.error", out, q)
             ELSE IF <<bytes_to_int(SubSeq(data, q + 1, q + 2)),
                       bytes_to_int(SubSeq(data, q + 3, q + 4))>>
                     # adler32(out \o SubSeq(data, p + 6, q))
             THEN Value("zlib.error", out, q)
             ELSE Value("none", out \o SubSeq(data, p + 6, q), q + 4)

\* zlib.decompress
decompress(data) ==
    IF ~zlib_header_ok(data) THEN Value("zlib.error", <<>>, 0) ELSE inflate(data, 2, <<>>)

\* BeamExtTerm.PARSERS: the tags with a parser
PARSERS == {70, 82, 97, 98, 100, 104, 105, 106, 107, 108, 109, 110, 113, 115, 116, 118, 119}

\* BeamExtTerm.parse with the marker required.  Of the parsers only
\* BeamSmallIntegerExt (97) and BeamNilExt (106) are represented; no literal
\* considered holds another tag of PARSERS.
BeamExtTerm_parse(data, p) ==
    IF Len(read(data, p, 2)) # 2 THEN Value("struct.error", <<>>, p)
    ELSE IF data[p + 1] # 131 THEN Value("AssertionError", <<>>, p + 2)
    ELSE IF data[p + 2] \notin PARSERS THEN Value("UnsupportedBeamExt", <<>>, p + 2)
    ELSE IF data[p + 2] = 97
    THEN IF Len(read(data, p + 2, 1)) # 1 THEN Value("struct.error", <<>>, p + 2)
         ELSE Value("none", <<97, data[p + 3]>>, p + 3)
    ELSE IF data[p + 2] = 106 THEN Value("none", <<106>>, p + 2)
    ELSE Value("other ext term", <<>>, p + 2)

\* the loop over the literals: skip a Uint32, read an external term
RECURSIVE parse_literals(_, _, _, _)
RECURSIVE parse_literal(_, _, _, _)

parse_literal(data, ext_term, count, acc) ==
    IF ext_term.exc # "none" THEN Value(ext_term.exc, acc, ext_term.pos)
    ELSE parse_literals(data, ext_term.pos, count - 1, Append(acc, ext_term.v))

parse_literals(data, p, count, acc) ==
    IF count <= 0 THEN Value("none", acc, p)
    ELSE parse_literal(data, BeamExtTerm_parse(data, p + Len(read(data, p, 4))), count, acc)

\* "Parse decompressed data"
parse_decompressed(data) ==
    IF data.exc # "none" THEN Value(data.exc, <<>>, 4)
    ELSE IF Len(read(data.v, 0, 4)) # 4 THEN Value("struct.error", <<>>, 4)
    ELSE parse_literals(data.v, 4, bytes_to_int(read(data.v, 0, 4)), <<>>)

\* BeamLiteralSection.parse: the declared uncompressed size is read and not
\* used
BeamLiteralSection_parse(content) ==
    IF Len(read(content, 0, 4)) # 4 THEN Value("struct.error", <<>>, 0)
    ELSE parse_decompressed(decompress(SubSeq(content, 5, Len(content))))

\* BeamInstsRegistry.INSTS_ARITY: the arity of opcodes 1..182
INSTS_ARITY ==
    <<1, 3, 0, 2, 3, 2, 2, 3, 2, 4, 5, 2, 3, 2, 3, 2, 1, 1, 0, 0, 0, 0, 2, 1, 1, 2,
       4, 4, 4, 4, 4, 4, 4, 4, 4, 4, 4, 3, 3, 3, 3, 3, 3, 3, 2, 2, 2, 2, 2, 2, 2, 2,
       2, 2, 2, 2, 2, 3, 3, 3, 1, 2, 1, 2, 3, 3, 3, 3, 3, 2, 1, 1, 0, 1, 1, 3, 2, 2,
       2, 5, 5, 5, 4, 2, 1, 1, 2, 2, 5, 5, 5, 2, 1, 0, 1, 2, 2, 4, 4, 4, 4, 3, 1, 2,
       1, 1, 1, 2, 6, 3, 5, 1, 2, 2, 3, 5, 7, 7, 7, 5, 3, 2, 2, 5, 6, 2, 2, 2, 2, 1,
       3, 4, 0, 8, 6, 2, 6, 5, 4, 5, 4, 5, 4, 3, 3, 3, 3, 3, 0, 1, 1, 7, 1, 5, 5, 2,
       3, 3, 4, 0, 0, 2, 2, 2, 3, 4, 3, 2, 2, 4, 3, 1, 2, 1, 1, 1, 6, 3, 0, 1, 5, 3 >>

\* BeamInstParser.parse for each instruction of the code section: an opcode
\* outside the registry makes inst_class execute `raise BeamInst`, which is
\* a TypeError since BeamInst is no exception class
RECURSIVE parse_insts(_, _, _)
RECURSIVE parse_inst(_, _, _, _)

\* section.add(inst) for the operands just read
parse_inst(content, inst_opcode, operands, insts) ==
    IF operands.exc # "none" THEN Value(operands.exc, insts, operands.pos)
    ELSE parse_insts(content, operands.pos,
                     Append(insts, [opcode |-> inst_opcode, operands |-> operands.term.items]))

parse_insts(content, p, insts) ==
    IF ~(p < Len(content)) THEN Value("none", insts, p)
    ELSE IF content[p + 1] \notin 1..Len(INSTS_ARITY) THEN Value("TypeError", insts, p + 1)
    ELSE parse_inst(content, content[p + 1],
                    read_terms(content, p + 1, INSTS_ARITY[content[p + 1]], <<>>), insts)

BeamCodeSection_parse(content) ==
    LET code_version == unpack_unsigned(read(content, 0, 4), 4)
        counts == unpack_words(read(content, 4, 16), 4)
    IN  IF code_version.exc # "none" THEN Value(code_version.exc, <<>>, 0)
        ELSE IF counts.exc # "none" THEN Value(counts.exc, <<>>, 4)
        ELSE parse_insts(content, 20, <<>>)

(***************************************************************************)
(* module.py: BeamFile.                                                    *)
(***************************************************************************)
MarkerLine == <<76, 105, 110, 101>>

MarkerAtom == <<65, 116, 111, 109>>

MarkerAtU8 == <<65, 116, 85, 56>>

MarkerImpT == <<73, 109, 112, 84>>

MarkerExpT == <<69, 120, 112, 84>>

MarkerFunT == <<70, 117, 110, 84>>

MarkerLitT == <<76, 105, 116, 84>>

MarkerCode == <<67, 111, 100, 101>>

\* the dispatch of __decode_chunk with a final `else` that parses the
\* content as an atom table
section_of_else_atoms(marker) ==
    CASE marker = MarkerLine -> "line_nums"
      [] marker = MarkerImpT -> "imports"
      [] marker = MarkerExpT -> "exports"
      [] marker = MarkerFunT -> "funcs"
      [] marker = MarkerLitT -> "literals"
      [] marker = MarkerCode -> "code"
      [] OTHER -> "atoms"

\* the attribute a marker is decoded into; "none" for any other marker
section_of(marker) ==
    CASE marker = MarkerLine -> "line_nums"
      [] marker = MarkerAtom \/ marker = MarkerAtU8 -> "atoms"
      [] marker = MarkerImpT -> "imports"
      [] marker = MarkerExpT -> "exports"
      [] marker = MarkerFunT -> "funcs"
      [] marker = MarkerLitT -> "literals"
      [] marker = MarkerCode -> "code"
      [] OTHER -> "none"

section_parse(name, content) ==
    CASE name = "line_nums" -> BeamLineSection_parse(content)
      [] name = "atoms" -> BeamAtomSection_parse(content)
      [] name = "imports" -> BeamImportSection_parse(content)
      [] name = "exports" -> BeamExportSection_parse(content)
      [] name = "funcs" -> BeamFunctionSection_parse(content)
      [] name = "literals" -> BeamLiteralSection_parse(content)
      [] name = "code" -> BeamCodeSection_parse(content)
      [] OTHER -> Value("none", <<>>, 0)

\* self.__<name> = <the parsed section>, unless the parser raised
section_assign(name, r, secs) ==
    IF name = "none" THEN Value("none", secs, 0)
    ELSE IF r.exc # "none" THEN Value(r.exc, secs, 0)
    ELSE Value("none", [secs EXCEPT ![name] = <<r.v>>], 0)

section_decode(name, content, secs) == section_assign(name, section_parse(name, content), secs)

\* __decode_chunk: [exc, v]; v the section attributes after the call
decode_chunk(marker, content, secs) == section_decode(section_of(marker), content, secs)

FOR1 == 1179603505

BEAM == 1111834957

\* __check_header: [exc, v]; v the declared length
check_header(src) ==
    LET header == read(src, 0, 12)
    IN  IF Len(header) # 12 THEN Value("InvalidBeamHeader", 0, Len(header))
        ELSE LET fields == unpack_words(header, 3).v
             IN  IF fields[1] # FOR1 \/ fields[3] # BEAM
                 THEN Value("InvalidBeamHeader", 0, 12)
                 ELSE Value("none", fields[2], 12)

\* "Align on 4-byte boundary": next_chunk_offset
next_chunk_offset_unaligned(chunk_length) == chunk_length

next_chunk_offset(chunk_length) == 4 * ((chunk_length + 3) \div 4)

\* the state of __parse: the exception that left it, the read position, the
\* chunks handed to __decode_chunk and the section attributes
ParseState(exc, p, dec, secs) ==
    [exc |-> exc, pos |-> p, decoded |-> dec, sections |-> secs, length |-> 0]

\* "Iterate over chunks"
RECURSIVE parse_chunks(_, _, _, _, _, _)
RECURSIVE parse_chunk_header(_, _, _, _, _, _, _)
RECURSIVE parse_chunk_body(_, _, _, _, _, _, _, _)
RECURSIVE parse_chunk_align(_, _, _, _, _, _, _)

\* "Align on 4-byte boundary", for the chunk just decoded; p is the position
\* after the body
parse_chunk_align(src, p, len, read_length, chunk_length, dec, chunk) ==
    IF chunk.exc # "none" THEN ParseState(chunk.exc, p, dec, chunk.v)
    ELSE parse_chunks(src,
                      p + Len(read(src, p, next_chunk_offset(chunk_length) - chunk_length)),
                      len, read_length + 8 + next_chunk_offset(chunk_length), dec, chunk.v)

\* "Read chunk body" and "Process chunk"; p is the position after the length
parse_chunk_body(src, p, len, read_length, marker, chunk_length, dec, secs) ==
    parse_chunk_align(src, p + Len(read(src, p, chunk_length)), len, read_length, chunk_length,
                      Append(dec, [marker |-> marker, body |-> read(src, p, chunk_length)]),
                      decode_chunk(marker, read(src, p, chunk_length), secs))

\* "Read chunk length"; p is the position after the marker
parse_chunk_header(src, p, len, read_length, marker, dec, secs) ==
    IF Len(read(src, p, 4)) # 4
    THEN ParseState("struct.error", p + Len(read(src, p, 4)), dec, secs)
    ELSE parse_chunk_body(src, p + 4, len, read_length, marker,
                          bytes_to_int(read(src, p, 4)), dec, secs)

parse_chunks(src, p, len, read_length, dec, secs) ==
    IF ~(read_length < len - 4) THEN ParseState("none", p, dec, secs)
    ELSE parse_chunk_header(src, p + Len(read(src, p, 4)), len, read_length,
                            read(src, p, 4), dec, secs)

\* __parse: an IOError or an InvalidBeamHeader is raised again as
\* UnknownBeamFileFormat, any other exception leaves as it is
parse_header(src, header) ==
    IF header.exc # "none"
    THEN ParseState(header.exc, header.pos, <<>>, [s \in SectionNames |-> <<>>])
    ELSE [parse_chunks(src, 12, header.v, 0, <<>>, [s \in SectionNames |-> <<>>])
            EXCEPT !.length = header.v]

parse(src) ==
    [parse_header(src, check_header(src))
        EXCEPT !.exc = IF @ \in {"IOError", "InvalidBeamHeader"}
                       THEN "UnknownBeamFileFormat" ELSE @]

\* load_gzipped_beam on a file that does not start with the gzip magic:
\* gzip raises while the header is read and the exception is raised again as
\* UnknownBeamFileFormat.  No stream considered starts with the gzip magic.
load_gzipped_beam(src) ==
    IF read(src, 0, 2) # <<31, 139>> THEN "UnknownBeamFileFormat" ELSE "gzip"

Outcome(exc) == IF exc = "none" THEN "ok" ELSE exc

\* the BeamFile after __parse has ended in state st
BeamFile(st) ==
    /\ pos' = st.pos
    /\ length' = st.length
    /\ decoded' = st.decoded
    /\ sections' = st.sections

\* BeamFile(f)
Construct ==
    /\ given # <<>>
    /\ result = "none"
    /\ BeamFile(parse(source))
    /\ result' = Outcome(parse(source).exc)
    /\ UNCHANGED <<given, source, gzipTried, access, analysisVars, termVars, driverVars>>

\* load_beam with `except Exception` in the place of
\* `except UnknownBeamFileFormat`
load_beam_except_any(exc) ==
    /\ gzipTried' = (exc # "none")
    /\ result' = IF exc # "none" THEN load_gzipped_beam(source) ELSE Outcome(exc)

\* load_beam(filename): BeamFile(f), and load_gzipped_beam when that raises
\* UnknownBeamFileFormat
\* load_beam after BeamFile(f) has raised exc or returned
load_beam(exc) ==
    /\ gzipTried' = (exc = "UnknownBeamFileFormat")
    /\ result' = IF exc = "UnknownBeamFileFormat" THEN load_gzipped_beam(source)
                 ELSE Outcome(exc)

LoadBeam ==
    /\ given # <<>>
    /\ result = "none"
    /\ BeamFile(parse(source))
    /\ load_beam(parse(source).exc)
    /\ UNCHANGED <<given, source, access, analysisVars, termVars, driverVars>>

(***************************************************************************)
(* The accessors of a BeamFile, over its section attributes secs.  A call  *)
(* raises exc, returns None, or returns the value v.                       *)
(***************************************************************************)
Returns(v) == [exc |-> "none", isNone |-> FALSE, v |-> v]

ReturnsNone == [exc |-> "none", isNone |-> TRUE, v |-> <<>>]

Raises(exc) == [exc |-> exc, isNone |-> FALSE, v |-> <<>>]

\* get_atom for an int index: BeamAtomSection.__getitem__, then decode
BeamFile_get_atom(secs, atom_index) ==
    IF secs["atoms"] = <<>> THEN ReturnsNone
    ELSE IF atom_index < Len(secs["atoms"][1]) THEN Returns(secs["atoms"][1][atom_index + 1])
    ELSE Raises("IndexError")

\* get_literal: BeamLiteralSection.get returns None past the end
BeamFile_get_literal(secs, literal_index) ==
    IF secs["literals"] = <<>> THEN ReturnsNone
    ELSE IF literal_index < Len(secs["literals"][1])
    THEN Returns(secs["literals"][1][literal_index + 1])
    ELSE ReturnsNone

\* get_lineno: BeamLineSection.get; __filenames[0] is the placeholder
BeamFile_get_lineno(secs, line_index) ==
    IF secs["line_nums"] = <<>> THEN ReturnsNone
    ELSE LET lines == secs["line_nums"][1].lines
             filenames == secs["line_nums"][1].filenames
         IN  IF ~(line_index < Len(lines)) THEN Raises("IndexError")
             ELSE IF lines[line_index + 1][1] = 0
             THEN Returns(<< <<>>, lines[line_index + 1][2] >>)
             ELSE IF lines[line_index + 1][1] > Len(filenames) THEN Raises("IndexError")
             ELSE Returns(<< filenames[lines[line_index + 1][1]], lines[line_index + 1][2] >>)

\* self.get_atom(index).decode('utf-8'): get_atom returns a str or None and
\* neither has a method decode
get_atom_decode(atom) == IF atom.exc # "none" THEN atom ELSE Raises("AttributeError")

\* the loops of imports() and exports(): the first entry leaves the loop
\* with the exception of get_atom(...).decode
decode_entries(secs, entries) ==
    IF entries = <<>> THEN Returns(<<>>)
    ELSE get_atom_decode(BeamFile_get_atom(secs, entries[1][1]))

BeamFile_imports(secs) ==
    IF secs["imports"] = <<>> THEN Returns(<<>>) ELSE decode_entries(secs, secs["imports"][1])

BeamFile_exports(secs) ==
    IF secs["exports"] = <<>> THEN Returns(<<>>) ELSE decode_entries(secs, secs["exports"][1])

\* local_functions: the tuples (name, arity, offset, index, nfree, ouniq)
RECURSIVE local_functions_from(_, _, _, _)
local_functions_from(secs, funcs, k, acc) ==
    IF k > Len(funcs) THEN Returns(acc)
    ELSE IF BeamFile_get_atom(secs, funcs[k][1]).exc # "none"
    THEN BeamFile_get_atom(secs, funcs[k][1])
    ELSE local_functions_from(secs, funcs, k + 1,
             Append(acc, [name |-> BeamFile_get_atom(secs, funcs[k][1]), entry |-> funcs[k]]))

BeamFile_local_functions(secs) ==
    IF secs["funcs"] = <<>> THEN Returns(<<>>)
    ELSE local_functions_from(secs, secs["funcs"][1], 1, <<>>)

\* a piece of a rendered line: how it was made, and the number or the bytes
\* it shows
Shown(how, n, b) == [how |-> how, n |-> n, b |-> b]

\* '%s' % self.get_atom(index): the atom, 'nil' for the index of atom 0,
\* 'None' when the module has no atom table
atom_shown(atom) ==
    IF atom.exc # "none" THEN atom
    ELSE IF atom.isNone THEN Returns(Shown("None", 0, <<>>))
    ELSE Returns(Shown("atom", 0, atom.v))

get_atom_shown(secs, term) ==
    IF term.t = "Atom" /\ term.payload.n = 0 THEN Returns(Shown("nil", 0, <<>>))
    ELSE IF index_number(term, "TypeError").exc # "none"
    THEN Raises(index_number(term, "TypeError").exc)
    ELSE atom_shown(BeamFile_get_atom(secs, term.payload.n))

\* '`%s`' % self.get_literal(index): 'None' when the module has no literal
\* table or the index is past its end
literal_shown(literal, index) ==
    IF literal.isNone THEN Returns(Shown("None", 0, <<>>))
    ELSE Returns(Shown("literal", index, <<>>))

\* BeamFile.get_value; a value of a class it has no branch for gives None
BeamFile_get_value(secs, term) ==
    CASE term.t = "Atom" -> get_atom_shown(secs, term)
      [] term.t = "Integer" -> Returns(Shown("hex", term.payload.n, <<>>))
      [] term.t = "Label" -> Returns(Shown("label", term.payload.n, <<>>))
      [] term.t = "Literal" ->
            literal_shown(BeamFile_get_literal(secs, term.payload.n), term.payload.n)
      [] term.t = "YReg" -> Returns(Shown("Y", term.payload.n, <<>>))
      [] term.t = "XReg" -> Returns(Shown("X", term.payload.n, <<>>))
      [] OTHER -> Returns(Shown("None", 0, <<>>))

\* '{:d}' of operand.index
index_shown(term) ==
    IF index_number(term, "ValueError").exc # "none"
    THEN Raises(index_number(term, "ValueError").exc)
    ELSE Returns(Shown("d", term.payload.n, <<>>))

\* BeamFile.get_import_str: '<%s:%s/%d>'; self.__imports.get raises
\* AttributeError on None and IndexError past the end of the table
shown_text(piece) == IF piece.how = "None" THEN <<78, 111, 110, 101>> ELSE piece.b

import_shown(module, function, arity) ==
    IF module.exc # "none" THEN module
    ELSE IF function.exc # "none" THEN function
    ELSE Returns(Shown("import", arity, shown_text(module.v) \o <<58>> \o shown_text(function.v)))

BeamFile_get_import_str(secs, import_index) ==
    IF secs["imports"] = <<>> THEN Raises("AttributeError")
    ELSE IF ~(import_index < Len(secs["imports"][1])) THEN Raises("IndexError")
    ELSE import_shown(atom_shown(BeamFile_get_atom(secs, secs["imports"][1][import_index + 1][1])),
                      atom_shown(BeamFile_get_atom(secs, secs["imports"][1][import_index + 1][2])),
                      secs["imports"][1][import_index + 1][3])

import_index_shown(secs, term) ==
    IF index_number(term, "TypeError").exc # "none"
    THEN Raises(index_number(term, "TypeError").exc)
    ELSE BeamFile_get_import_str(secs, term.payload.n)

\* the operands of a line in turn: the first exception leaves to_string
RECURSIVE shown_all(_, _, _)
shown_all(pieces, k, acc) ==
    IF k > Len(pieces) THEN Returns(acc)
    ELSE IF pieces[k].exc # "none" THEN pieces[k]
    ELSE shown_all(pieces, k + 1, Append(acc, pieces[k].v))

\* inst.to_string(module) of the classes label, func_info, call_ext and
\* move, and of BeamInst for the classes without operands
inst_to_string(secs, inst) ==
    CASE inst.opcode = 1 -> shown_all(<<index_shown(inst.operands[1])>>, 1, <<>>)
      [] inst.opcode = 2 ->
            shown_all(<<get_atom_shown(secs, inst.operands[1]),
                        get_atom_shown(secs, inst.operands[2]),
                        index_shown(inst.operands[3])>>, 1, <<>>)
      [] inst.opcode = 7 ->
            shown_all(<<index_shown(inst.operands[1]),
                        import_index_shown(secs, inst.operands[2])>>, 1, <<>>)
      [] inst.opcode = 64 ->
            shown_all(<<BeamFile_get_value(secs, inst.operands[1]),
                        BeamFile_get_value(secs, inst.operands[2])>>, 1, <<>>)
      [] inst.operands = <<>> -> Returns(<<>>)
      [] OTHER -> Raises("other instruction")

\* the loop of generate_assembly: one line per instruction
RECURSIVE assembly_lines(_, _, _, _)

assembly_line(secs, insts, k, acc, line) ==
    IF line.exc # "none" THEN line
    ELSE assembly_lines(secs, insts, k + 1,
                        Append(acc, [opcode |-> insts[k].opcode, shown |-> line.v]))

assembly_lines(secs, insts, k, acc) ==
    IF k > Len(insts) THEN Returns(acc)
    ELSE assembly_line(secs, insts, k, acc, inst_to_string(secs, insts[k]))

\* generate_assembly: self.__code.insts raises AttributeError on None
BeamFile_generate_assembly(secs) ==
    IF secs["code"] = <<>> THEN Raises("AttributeError")
    ELSE assembly_lines(secs, secs["code"][1], 1, <<>>)

\* the class of an opcode, by its mnemonic, for the classes the analysis
\* tells apart
mnemonic(opcode) ==
    CASE opcode = 1 -> "label"
      [] opcode = 2 -> "func_info"
      [] opcode = 3 -> "int_code_end"
      [] opcode = 4 -> "call"
      [] opcode = 7 -> "call_ext"
      [] opcode = 19 -> "return"
      [] opcode = 39 -> "is_lt"
      [] opcode = 59 -> "select_val"
      [] opcode = 61 -> "jump"
      [] OTHER -> "other"

\* the instructions of a parsed code section as the analysis reads them
insts_of(parsed) ==
    [i \in 1..Len(parsed) |->
        Inst(mnemonic(parsed[i].opcode),
             [o \in 1..Len(parsed[i].operands) |->
                 [t |-> parsed[i].operands[o].t, v |-> parsed[i].operands[o].payload.n,
                  items |-> <<>>]])]

\* Beamalyzer(beam): CodeItemizer reads self.__code.insts, which raises
\* AttributeError when the module has no code section
Beamalyzer_blocks(c) ==
    Returns(graph_functions(c, find_functions(c, parse_code_blocks(c)), 1, parse_code_blocks(c)))

Beamalyzer(secs) ==
    IF secs["code"] = <<>> THEN Raises("AttributeError")
    ELSE Beamalyzer_blocks(insts_of(secs["code"][1]))

\* the accessors are called on a BeamFile that has been built
Access(index) ==
    /\ result = "ok"
    /\ access = <<>>
    /\ access' = <<[index |-> index,
                    get_atom |-> BeamFile_get_atom(sections, index),
                    get_literal |-> BeamFile_get_literal(sections, index),
                    get_lineno |-> BeamFile_get_lineno(sections, index),
                    imports |-> BeamFile_imports(sections),
                    exports |-> BeamFile_exports(sections),
                    local_functions |-> BeamFile_local_functions(sections),
                    generate_assembly |-> BeamFile_generate_assembly(sections),
                    Beamalyzer |-> Beamalyzer(sections)]>>
    /\ UNCHANGED <<given, source, pos, length, decoded, sections, result, gzipTried,
                   analysisVars, termVars, driverVars>>

(***************************************************************************)
(* The writer of containers.  It is not part of the package; it follows    *)
(* the layout of the format: the 12-byte header FOR1, length, BEAM (the    *)
(* length counts everything after the length field), then per chunk the    *)
(* marker, the body length, the body and (4 - L mod 4) mod 4 pad bytes.    *)
(***************************************************************************)
U32(n) == BigEndian(n, 4)

PadLen(L) == (4 - (L % 4)) % 4

WriteChunk(c, padByte) ==
    c.marker \o U32(Len(c.body)) \o c.body \o [i \in 1..PadLen(Len(c.body)) |-> padByte]

RECURSIVE WriteChunks(_, _)
WriteChunks(chunks, padByte) ==
    IF chunks = <<>> THEN <<>>
    ELSE WriteChunk(Head(chunks), padByte) \o WriteChunks(Tail(chunks), padByte)

MarkerDbgi == <<68, 98, 103, 105>>

\* g.shape: "ok", or the way in which the stream departs from the layout
WriteContainer(g) ==
    LET body == WriteChunks(g.chunks, g.pad)
        tail == IF g.shape = "cut chunk header" THEN MarkerDbgi \o <<0, 0>> ELSE <<>>
        declared == 4 + Len(body) + Len(tail)
                    + (CASE g.shape = "length over" -> 4
                         [] g.shape = "length under" -> -4
                         [] OTHER -> 0)
        for1 == IF g.shape = "bad FOR1" THEN <<70, 79, 82, 50>> ELSE U32(FOR1)
        beam == IF g.shape = "bad BEAM" THEN <<66, 69, 65, 78>> ELSE U32(BEAM)
        all == for1 \o U32(declared) \o beam \o body \o tail
    IN  IF g.shape = "short header" THEN SubSeq(all, 1, 11) ELSE all

Shapes ==
    {"ok", "short header", "bad FOR1", "bad BEAM", "length over", "length under",
     "cut chunk header"}

PadBytes == {0, 127}

Chunk(marker, body, bad) == [marker |-> marker, body |-> body, bad |-> bad]

\* chunks of a tag the parser ignores, of every body length up to MaxBodyLen
UnknownChunks == {Chunk(MarkerDbgi, [i \in 1..L |-> i], "none") : L \in 0..MaxBodyLen}

\* code version, instruction set, highest opcode, label count, function count
CodeHeader == U32(16) \o U32(0) \o U32(Len(INSTS_ARITY)) \o U32(1) \o U32(0)

\* a zlib stream of one stored block holding the payload
ZlibStored(payload) ==
    <<120, 1, 1, Len(payload) % 256, Len(payload) \div 256,
      (65535 - Len(payload)) % 256, (65535 - Len(payload)) \div 256>>
    \o payload \o BigEndian(adler32(payload)[1], 2) \o BigEndian(adler32(payload)[2], 2)

\* the literal table of one literal, the small integer 42
OneLiteral == U32(1) \o U32(3) \o <<131, 97, 42>>

\* the cap on the declared uncompressed size of the literals: 64 MiB
LiteralSizeCap == 67108864

\* one atom 'A'; one import (1, 2, 0); label 1, int_code_end; one line
\* reference 5 and one file name 'a'; one literal
ValidChunks ==
    { Chunk(MarkerAtom, U32(1) \o <<1, 65>>, "none"),
      Chunk(MarkerImpT, U32(1) \o U32(1) \o U32(2) \o U32(0), "none"),
      Chunk(MarkerCode, CodeHeader \o <<1, 16, 3>>, "none"),
      Chunk(MarkerLine, U32(0) \o U32(0) \o U32(1) \o U32(1) \o U32(1) \o <<81>> \o <<0, 1, 97>>,
            "none"),
      Chunk(MarkerLitT, U32(Len(OneLiteral)) \o ZlibStored(OneLiteral), "none") }

\* an import table of one entry without the entry; opcode 200; an operand
\* with the extended tag 0x67; literals that are no zlib stream; literals
\* whose declared uncompressed size is one byte over the cap
BadChunks ==
    { Chunk(MarkerImpT, U32(1), "truncated table"),
      Chunk(MarkerCode, CodeHeader \o <<200>>, "unknown opcode"),
      Chunk(MarkerCode, CodeHeader \o <<1, 103>>, "unsupported compact term"),
      Chunk(MarkerLitT, U32(0) \o <<0, 0>>, "bad literal compression"),
      Chunk(MarkerLitT, U32(LiteralSizeCap + 1) \o ZlibStored(OneLiteral),
            "declared size over the cap") }

ContainerInputs ==
    [chunks : SeqsUpTo(UnknownChunks \cup ValidChunks \cup BadChunks, MaxChunks),
     pad : PadBytes, shape : Shapes]

(***************************************************************************)
(* SpecContainer: a stream is written, and either BeamFile is constructed  *)
(* on it or load_beam is called on it.                                     *)
(***************************************************************************)
InitContainer ==
    /\ NoAnalysis
    /\ NoTerm
    /\ NoDriver
    /\ \E g \in ContainerInputs :
          /\ given = <<g>>
          /\ source = WriteContainer(g)
    /\ pos = 0
    /\ length = 0
    /\ decoded = <<>>
    /\ sections = [s \in SectionNames |-> <<>>]
    /\ result = "none"
    /\ gzipTried = FALSE
    /\ access = <<>>

NextContainer ==
    \/ Construct
    \/ LoadBeam
    \/ \E index \in 0..1 : Access(index)

SpecContainer == InitContainer /\ [][NextContainer]_vars

(***************************************************************************)
(* SpecRender: a container of any of the three tables (the atoms A and f,  *)
(* the import A:f/0, one literal) and a code section of one block, whose   *)
(* second instruction names an atom, an import or a literal inside or      *)
(* outside its table, is parsed and its accessors are called.              *)
(***************************************************************************)
RenderTables ==
    << Chunk(MarkerAtom, U32(2) \o <<1, 65, 1, 102>>, "none"),
       Chunk(MarkerImpT, U32(1) \o U32(1) \o U32(2) \o U32(0), "none"),
       Chunk(MarkerLitT, U32(Len(OneLiteral)) \o ZlibStored(OneLiteral), "none") >>

\* the compact term of a small index: the tag in the low three bits
SmallTerm(tag, n) == n * 16 + tag

\* move Atom, X0; move Literal, X0; call_ext 0, import; func_info A, Atom, 0
RenderInsts ==
    {<<64, SmallTerm(2, n), SmallTerm(3, 0)>> : n \in {1, 5}}
    \cup {<<64, SmallTerm(0, n), SmallTerm(3, 0)>> : n \in {0, 5}}
    \cup {<<7, SmallTerm(0, 0), SmallTerm(0, n)>> : n \in {0, 5}}
    \cup {<<2, SmallTerm(2, 1), SmallTerm(2, n), SmallTerm(0, 0)>> : n \in {2, 5}}

\* label 1, the instruction, return
RenderCodes == {Chunk(MarkerCode, CodeHeader \o <<1, 16>> \o inst \o <<19>>, "none") : inst \in RenderInsts}

\* the tables picked, in the order of RenderTables
RECURSIVE PickTables(_, _)
PickTables(picked, k) ==
    IF k > Len(RenderTables) THEN <<>>
    ELSE (IF k \in picked THEN <<RenderTables[k]>> ELSE <<>>) \o PickTables(picked, k + 1)

RenderInputs ==
    {[chunks |-> PickTables(picked, 1) \o <<code_chunk>>, pad |-> 0, shape |-> "ok"] :
        picked \in SUBSET (1..Len(RenderTables)), code_chunk \in RenderCodes}

InitRender ==
    /\ NoAnalysis
    /\ NoTerm
    /\ NoDriver
    /\ \E g \in RenderInputs :
          /\ given = <<g>>
          /\ source = WriteContainer(g)
    /\ pos = 0
    /\ length = 0
    /\ decoded = <<>>
    /\ sections = [s \in SectionNames |-> <<>>]
    /\ result = "none"
    /\ gzipTried = FALSE
    /\ access = <<>>

NextRender ==
    \/ Construct
    \/ \E index \in 0..1 : Access(index)

SpecRender == InitRender /\ [][NextRender]_vars

(***************************************************************************)
(* SpecLine: a container of one Line chunk is parsed.  The chunk declares  *)
(* any line-ref count up to MaxLineTerms, holds up to MaxLineTerms terms   *)
(* (the Integers 5 and 7, the Atoms 1, 2 and 3) and the two file names a   *)
(* and b.                                                                  *)
(***************************************************************************)
LineTerms == {[t |-> "Integer", n |-> 5], [t |-> "Integer", n |-> 7]}
             \cup {[t |-> "Atom", n |-> a] : a \in 1..3}

LineNames == << <<97>>, <<98>> >>

RECURSIVE WriteLineTerms(_)
WriteLineTerms(terms) ==
    IF terms = <<>> THEN <<>>
    ELSE <<SmallTerm(IF Head(terms).t = "Integer" THEN 1 ELSE 2, Head(terms).n)>>
         \o WriteLineTerms(Tail(terms))

RECURSIVE WriteLineNames(_)
WriteLineNames(names) ==
    IF names = <<>> THEN <<>>
    ELSE BigEndian(Len(Head(names)), 2) \o Head(names) \o WriteLineNames(Tail(names))

\* version, flags, instruction count, line-ref count, file name count, the
\* terms, the file names
LineChunk(count, terms) ==
    Chunk(MarkerLine,
          U32(0) \o U32(0) \o U32(0) \o U32(count) \o U32(Len(LineNames))
          \o WriteLineTerms(terms) \o WriteLineNames(LineNames),
          "none")

LineInputs ==
    {[chunks |-> <<LineChunk(count, terms)>>, pad |-> 0, shape |-> "ok",
      count |-> count, terms |-> terms] :
        count \in 0..MaxLineTerms, terms \in SeqsUpTo(LineTerms, MaxLineTerms)}

InitLine ==
    /\ NoAnalysis
    /\ NoTerm
    /\ NoDriver
    /\ \E g \in LineInputs :
          /\ given = <<g>>
          /\ source = WriteContainer(g)
    /\ pos = 0
    /\ length = 0
    /\ decoded = <<>>
    /\ sections = [s \in SectionNames |-> <<>>]
    /\ result = "none"
    /\ gzipTried = FALSE
    /\ access = <<>>

NextLine ==
    \/ Construct
    \/ \E index \in 0..MaxLineTerms : Access(index)

SpecLine == InitLine /\ [][NextLine]_vars

(***************************************************************************)
(* prism.py: the driver.  A file is its extension and the streams it       *)
(* holds: one for a .beam file, one per member for a .ez archive (every    *)
(* member a regular file named *.beam).  A loaded BeamFile is its section  *)
(* attributes.                                                             *)
(***************************************************************************)
\* BeamFile(f): the list of the one module built, or the exception
BeamFile_of(st) == IF st.exc = "none" THEN Returns(<<st.sections>>) ELSE Raises(st.exc)

\* load_beam(filename) after BeamFile(f) has returned or raised
load_beam_result(r, src) ==
    IF r.exc = "UnknownBeamFileFormat" THEN Raises(load_gzipped_beam(src)) ELSE r

load_beam_file(src) == load_beam_result(BeamFile_of(parse(src)), src)

RECURSIVE load_beams_from_ez_from(_, _, _)

\* the member is taken as gzipped: load_beam on the temporary file
ez_member_gzipped(members, k, beams, r) ==
    IF r.exc = "none" THEN load_beams_from_ez_from(members, k + 1, beams \o r.v)
    ELSE IF r.exc = "UnknownBeamFileFormat" THEN ReturnsNone
    ELSE r

\* the member is loaded as a normal BEAM file
ez_member(members, k, beams, r) ==
    IF r.exc = "none" THEN load_beams_from_ez_from(members, k + 1, beams \o r.v)
    ELSE IF r.exc = "UnknownBeamFileFormat"
    THEN ez_member_gzipped(members, k, beams, load_beam_file(members[k]))
    ELSE r

load_beams_from_ez_from(members, k, beams) ==
    IF k > Len(members) THEN Returns(beams)
    ELSE ez_member(members, k, beams, BeamFile_of(parse(members[k])))

load_beams_from_ez(members) == load_beams_from_ez_from(members, 1, <<>>)

\* search_beams: every Exception of a load is passed over; extend(None)
\* raises TypeError, passed over as well
RECURSIVE search_beams_from(_, _, _)

search_beams_add(files, k, beams, r) ==
    search_beams_from(files, k + 1,
                      IF r.exc = "none" /\ ~r.isNone THEN beams \o r.v ELSE beams)

search_beams_from(files, k, beams) ==
    IF k > Len(files) THEN beams
    ELSE IF files[k].ext = "ez"
    THEN search_beams_add(files, k, beams, load_beams_from_ez(files[k].members))
    ELSE search_beams_add(files, k, beams, load_beam_file(files[k].members[1]))

search_beams(files) == search_beams_from(files, 1, <<>>)

\* load_beams: only UnknownBeamFileFormat is caught
load_beams_caught(r) == IF r.exc = "UnknownBeamFileFormat" THEN Returns(<<>>) ELSE r

load_beams(file) ==
    IF file.ext = "ez" THEN load_beams_caught(load_beams_from_ez(file.members))
    ELSE load_beams_caught(load_beam_file(file.members[1]))

\* disassemble_beams, first loop: beam.name is printed and Beamalyzer(beam)
\* is built; the analyzer is kept as its code and its functions
analyzer_of(c) == [code |-> c, functions |-> find_functions(c, parse_code_blocks(c))]

RECURSIVE analyze_beams(_, _, _)
analyze_beams(beams, k, analyzers) ==
    IF k > Len(beams) THEN Returns(analyzers)
    ELSE IF BeamFile_get_atom(beams[k], 1).exc # "none" THEN BeamFile_get_atom(beams[k], 1)
    ELSE IF Beamalyzer(beams[k]).exc # "none" THEN Beamalyzer(beams[k])
    ELSE analyze_beams(beams, k + 1, Append(analyzers, analyzer_of(insts_of(beams[k]["code"][1]))))

\* the instructions annotate and to_string treat alike whatever the tables
\* of the module hold: they name no function, label, atom or literal
Plain(inst) == inst.op \in {"label", "int_code_end", "return"}

\* annotate(beams) of one analyzer: func_labels[function.blocks[1]] raises
\* IndexError for a function of fewer than two blocks; a module without a
\* function whose instructions are plain is left as it is
annotate_beam(analyzer) ==
    IF \E f \in 1..Len(analyzer.functions) : Len(analyzer.functions[f].blocks) < 2
    THEN "IndexError"
    ELSE IF analyzer.functions = <<>> /\ \A i \in 1..Len(analyzer.code) : Plain(analyzer.code[i])
    THEN "none"
    ELSE "annotate"

RECURSIVE annotate_beams(_, _)
annotate_beams(analyzers, k) ==
    IF k > Len(analyzers) THEN "none"
    ELSE IF annotate_beam(analyzers[k]) # "none" THEN annotate_beam(analyzers[k])
    ELSE annotate_beams(analyzers, k + 1)

\* disassemble_beams: the exception that leaves it, or "none"; the output
\* directory is writable
disassemble_analyzed(analyzers) ==
    IF analyzers.exc # "none" THEN analyzers.exc ELSE annotate_beams(analyzers.v, 1)

disassemble_beams(beams) == disassemble_analyzed(analyze_beams(beams, 1, <<>>))

\* the interpreter ends with status 1 when an exception leaves prism_main
\* and with status 0 when prism_main returns; prism_main never calls
\* sys.exit
exit_status(exc) == [code |-> IF exc = "none" THEN 0 ELSE 1, exc |-> exc]

\* prism_main from len(beams) on
prism_loaded(r) ==
    IF r.exc # "none"
    THEN /\ beamsFound' = <<>>
         /\ exitStatus' = <<exit_status(r.exc)>>
    ELSE IF r.isNone
    THEN /\ beamsFound' = <<>>
         /\ exitStatus' = <<exit_status("TypeError")>>
    ELSE /\ beamsFound' = <<Len(r.v)>>
         /\ exitStatus' = <<exit_status(disassemble_beams(r.v))>>

\* prism_main -s DIR
PrismSearch ==
    /\ argv # <<>>
    /\ exitStatus = <<>>
    /\ argv[1].mode = "search"
    /\ prism_loaded(Returns(search_beams(argv[1].files)))
    /\ UNCHANGED <<argv, written, analysisVars, containerVars, termVars>>

\* prism_main -f FILE
PrismFile ==
    /\ argv # <<>>
    /\ exitStatus = <<>>
    /\ argv[1].mode = "file"
    /\ prism_loaded(load_beams(argv[1].files[1]))
    /\ UNCHANGED <<argv, written, analysisVars, containerVars, termVars>>

\* prism_main without -s and -f: the help is printed
PrismHelp ==
    /\ argv # <<>>
    /\ exitStatus = <<>>
    /\ argv[1].mode = "help"
    /\ beamsFound' = <<>>
    /\ exitStatus' = <<exit_status("none")>>
    /\ UNCHANGED <<argv, written, analysisVars, containerVars, termVars>>

\* the streams of the files: a module of one atom and one block, a
\* container without a chunk, a stream that is no container, a code
\* section with opcode 200
DriverStreams ==
    { WriteContainer([chunks |-> <<Chunk(MarkerAtom, U32(1) \o <<1, 65>>, "none"),
                                  Chunk(MarkerCode, CodeHeader \o <<1, 16, 3>>, "none")>>,
                      pad |-> 0, shape |-> "ok"]),
      WriteContainer([chunks |-> <<>>, pad |-> 0, shape |-> "ok"]),
      WriteContainer([chunks |-> <<>>, pad |-> 0, shape |-> "bad FOR1"]),
      WriteContainer([chunks |-> <<Chunk(MarkerCode, CodeHeader \o <<200>>, "unknown opcode")>>,
                      pad |-> 0, shape |-> "ok"]) }

BeamFiles == {[ext |-> "beam", members |-> <<src>>] : src \in DriverStreams}

EzFiles == {[ext |-> "ez", members |-> ms] : ms \in SeqsUpTo(DriverStreams, MaxFiles)}

\* the number of streams the files hold
RECURSIVE StreamCount(_)
StreamCount(files) ==
    IF files = <<>> THEN 0 ELSE Len(files[1].members) + StreamCount(Tail(files))

\* the runs: a directory of at most MaxFiles files holding at most MaxFiles
\* streams, one file, or neither option
DriverInputs ==
    {[mode |-> "search", files |-> fs] :
        fs \in {x \in SeqsUpTo(BeamFiles \cup EzFiles, MaxFiles) : StreamCount(x) <= MaxFiles}}
    \cup {[mode |-> "file", files |-> <<f>>] : f \in BeamFiles \cup EzFiles}
    \cup {[mode |-> "help", files |-> <<>>]}

(***************************************************************************)
(* SpecDriver: prism_main is run once on a directory, on a file, or        *)
(* without either option.                                                  *)
(***************************************************************************)
InitDriver ==
    /\ NoAnalysis
    /\ NoContainer
    /\ NoTerm
    /\ argv \in {<<a>> : a \in DriverInputs}
    /\ beamsFound = <<>>
    /\ exitStatus = <<>>
    /\ written = <<>>

NextDriver ==
    \/ PrismSearch
    \/ PrismFile
    \/ PrismHelp

SpecDriver == InitDriver /\ [][NextDriver]_vars

\* the (marker, content) pairs of a chunk sequence
Pairs(chunks) == [k \in 1..Len(chunks) |-> [marker |-> chunks[k].marker, body |-> chunks[k].body]]

\* the section attributes after decoding the chunks one after the other
RECURSIVE SectionsOf(_, _)
SectionsOf(chunks, secs) ==
    IF chunks = <<>> THEN secs
    ELSE SectionsOf(Tail(chunks), decode_chunk(Head(chunks).marker, Head(chunks).body, secs).v)

AllBodiesValid(g) == \A k \in 1..Len(g.chunks) : g.chunks[k].bad = "none"

\* C5 (chunk pad invariance): for every container of the regular layout whose
\* chunk bodies decode, whatever the pad bytes hold, the parser returns
\* normally, has handed exactly the (marker, body) pairs of the chunks to the
\* chunk decoder in order, has consumed the whole stream, and holds the
\* sections that decoding these bodies gives.
C5_ChunkPadInvariance ==
    (result # "none" /\ given[1].shape = "ok" /\ AllBodiesValid(given[1])) =>
        /\ result = "ok"
        /\ decoded = Pairs(given[1].chunks)
        /\ pos = Len(source)
        /\ sections = SectionsOf(given[1].chunks, [s \in SectionNames |-> <<>>])

\* a parsed container of two chunks, the first with a body that needs pad
\* bytes, the pad bytes not zero, the second an atom table
C5_Witness ==
    /\ result = "ok"
    /\ given[1].shape = "ok"
    /\ given[1].pad # 0
    /\ Len(given[1].chunks) = 2
    /\ PadLen(Len(given[1].chunks[1].body)) # 0
    /\ given[1].chunks[2].marker = MarkerAtom
    /\ sections["atoms"] # <<>>

\* C7 (invalid header): when the header of the stream is short, a magic
\* differs or the declared length differs from the length of the container,
\* the construction fails with UnknownBeamFileFormat and no chunk has been
\* handed to the chunk decoder.
C7_InvalidHeader ==
    (result # "none" /\ given[1].shape \in
        {"short header", "bad FOR1", "bad BEAM", "length over", "length under"}) =>
        /\ result = "UnknownBeamFileFormat"
        /\ decoded = <<>>

\* C8 (chunk errors are wrapped): when a chunk body of a container with a
\* valid header fails to decode, or the stream ends inside a chunk header,
\* the construction fails with UnknownBeamFileFormat and with no other
\* exception.
C8_ChunkErrorsWrapped ==
    (/\ result # "none"
     /\ given[1].shape \in {"ok", "cut chunk header"}
     /\ (given[1].shape = "cut chunk header" \/ ~AllBodiesValid(given[1]))) =>
        result = "UnknownBeamFileFormat"

\* the way in which the first chunk that does not decode is bad, "none" when
\* every chunk decodes
RECURSIVE FirstBad(_)
FirstBad(chunks) ==
    IF chunks = <<>> THEN "none"
    ELSE IF Head(chunks).bad # "none" THEN Head(chunks).bad
    ELSE FirstBad(Tail(chunks))

\* C13 (unknown opcode): when the first chunk of a container of the regular
\* layout that fails to decode is a Code chunk holding an opcode byte that is
\* not in the instruction registry, BeamFile(f) and load_beam fail with the
\* dedicated unknown-opcode error and with no other kind of error.
C13_UnknownOpcode ==
    (/\ result # "none"
     /\ given[1].shape = "ok"
     /\ FirstBad(given[1].chunks) = "unknown opcode") =>
        result = "UnknownOpcode"

\* C16 (literal chunk size cap): when the first chunk of a container of the
\* regular layout that is to be rejected is a LitT chunk whose declared
\* uncompressed size exceeds the cap, its payload being a well-formed zlib
\* stream, the construction fails: the chunk is rejected on its declared
\* size, before the payload is decompressed.
C16_LiteralSizeCap ==
    (/\ result # "none"
     /\ given[1].shape = "ok"
     /\ FirstBad(given[1].chunks) = "declared size over the cap") =>
        result # "ok"

\* the accessor outcome is a value that holds nothing
ReturnsEmpty(r) == r.exc = "none" /\ ~r.isNone /\ DOMAIN r.v = {}

\* C14 (missing chunks): a container of the regular layout whose chunk bodies
\* decode parses whichever chunks are absent; on the module built, an accessor
\* whose table is absent returns its sentinel (None for get_atom, get_literal
\* and get_lineno, the empty list for imports, exports and local_functions),
\* no accessor raises because the atom table is absent, and when the code
\* section is absent generate_assembly gives no instruction and the analysis
\* gives no block, neither raising.
C14_MissingChunks ==
    /\ (result # "none" /\ given[1].shape = "ok" /\ AllBodiesValid(given[1]))
           => result = "ok"
    /\ access # <<>> =>
          /\ sections["atoms"] = <<>> => access[1].get_atom = ReturnsNone
          /\ sections["literals"] = <<>> => access[1].get_literal = ReturnsNone
          /\ sections["line_nums"] = <<>> => access[1].get_lineno = ReturnsNone
          /\ sections["imports"] = <<>> => ReturnsEmpty(access[1].imports)
          /\ sections["exports"] = <<>> => ReturnsEmpty(access[1].exports)
          /\ sections["funcs"] = <<>> => ReturnsEmpty(access[1].local_functions)
          /\ sections["atoms"] = <<>> =>
                /\ access[1].imports.exc = "none"
                /\ access[1].exports.exc = "none"
                /\ access[1].local_functions.exc = "none"
          /\ sections["code"] = <<>> =>
                /\ ReturnsEmpty(access[1].generate_assembly)
                /\ ReturnsEmpty(access[1].Beamalyzer)

\* every stream of the files is loaded without an exception
AllParsed(files) ==
    \A k \in 1..Len(files) : \A j \in 1..Len(files[k].members) :
        load_beam_file(files[k].members[j]).exc = "none"

\* C15 (driver exit status): a run of prism_main that has ended has exit
\* code 0 if every input file (the single file, every file found by the
\* search, every archive member) parsed, and a nonzero exit code if at least
\* one of them failed to parse.
C15_ExitStatus ==
    exitStatus # <<>> => (exitStatus[1].code = 0 <=> AllParsed(argv[1].files))

\* C23 (unresolved operands): on a module with a code section, rendering
\* does not abort when an operand names an atom, an import or a literal
\* outside its table: generate_assembly returns one line per instruction,
\* and every operand is shown as the entry it names or as its raw value.
C23_UnresolvedOperands ==
    (access # <<>> /\ sections["code"] # <<>>) =>
        /\ access[1].generate_assembly.exc = "none"
        /\ Len(access[1].generate_assembly.v) = Len(sections["code"][1])
        /\ \A k \in 1..Len(access[1].generate_assembly.v) :
              \A j \in 1..Len(access[1].generate_assembly.v[k].shown) :
                  access[1].generate_assembly.v[k].shown[j].how # "None"

\* the line refs that reading the terms one by one gives: an Integer
\* appends (current file name index, value), an Atom makes its index the
\* current file name index
RECURSIVE LineRefs(_, _)
LineRefs(terms, fname_index) ==
    IF terms = <<>> THEN <<>>
    ELSE IF Head(terms).t = "Integer"
    THEN << <<fname_index, Head(terms).n>> >> \o LineRefs(Tail(terms), fname_index)
    ELSE LineRefs(Tail(terms), Head(terms).n)

\* the Atom terms name entries of the pool: index 0 is the invalid
\* location, the file names follow
AtomsInPool(terms) ==
    \A k \in 1..Len(terms) : terms[k].t = "Atom" => terms[k].n <= Len(LineNames)

\* C24 (Line chunk): for a Line chunk that declares as many line refs as it
\* holds terms, with Atoms inside the file name pool, the parser returns the
\* sentinel (0, 0) followed by the line refs of exactly these terms, an
\* Integer appending (current file name index, value) and an Atom making
\* its index the current file name index, and the file names of the chunk.
C24_LineChunk ==
    (/\ result # "none"
     /\ given[1].count = Len(given[1].terms)
     /\ AtomsInPool(given[1].terms))
        => /\ result = "ok"
           /\ sections["line_nums"] # <<>>
           /\ sections["line_nums"][1].lines = << <<0, 0>> >> \o LineRefs(given[1].terms, 0)
           /\ sections["line_nums"][1].filenames = LineNames

\* the outcome of the plain parse BeamFile(f) of the stream
PlainParse == Outcome(parse(source).exc)

\* C27 (transport fallback): in every call of load_beam the gzip-wrapped
\* parse is attempted if and only if the plain parse of the stream raised
\* UnknownBeamFileFormat; without the attempt the caller gets the outcome of
\* the plain parse, which is the BeamFile when it succeeded, and when the
\* stream is no gzip stream either the caller gets UnknownBeamFileFormat.
C27_TransportFallback ==
    [][LoadBeam =>
          /\ gzipTried' <=> (PlainParse = "UnknownBeamFileFormat")
          /\ (PlainParse = "ok") => (result' = "ok" /\ ~gzipTried')
          /\ ~gzipTried' => result' = PlainParse
          /\ (gzipTried' /\ read(source, 0, 2) # <<31, 139>>)
                => result' = "UnknownBeamFileFormat"]_vars

\* load_beam has fallen back on a stream whose second magic is wrong, and
\* both attempts have failed
C27_Witness ==
    /\ gzipTried
    /\ result = "UnknownBeamFileFormat"
    /\ given[1].shape = "bad BEAM"

KnownTags ==
    {MarkerAtom, MarkerAtU8, MarkerImpT, MarkerExpT, MarkerFunT, MarkerLitT, MarkerLine,
     MarkerCode}

HasKnownTag(chunk) == chunk.marker \in KnownTags

\* the container written without its chunks of unknown tag
WithoutUnknown(g) == [g EXCEPT !.chunks = SelectSeq(@, HasKnownTag)]

\* the parser has ended as the parse st of another stream ends: the same
\* exception or none, the same section attributes
EndsAs(st) ==
    /\ result = Outcome(st.exc)
    /\ sections = st.sections

\* C28 (unknown chunk tags): for a container of the regular layout that
\* holds a chunk whose tag is none of Atom, AtU8, ImpT, ExpT, FunT, LitT,
\* Line and Code, the parser ends as it ends on the container written
\* without these chunks, with the same exception or none and the same
\* tables; when it returns it has consumed the whole stream, the bodies and
\* the padding of the chunks of unknown tag included.
C28_UnknownTagsSkipped ==
    (/\ result # "none"
     /\ given[1].shape = "ok"
     /\ \E k \in 1..Len(given[1].chunks) : ~HasKnownTag(given[1].chunks[k]))
        => /\ EndsAs(parse(WriteContainer(WithoutUnknown(given[1]))))
           /\ result = "ok" => (pos = Len(source) /\ decoded = Pairs(given[1].chunks))

\* a parsed container whose first chunk has an unknown tag and a body that
\* needs padding, followed by an atom table
C28_Witness ==
    /\ result = "ok"
    /\ given[1].shape = "ok"
    /\ Len(given[1].chunks) = 2
    /\ ~HasKnownTag(given[1].chunks[1])
    /\ PadLen(Len(given[1].chunks[1].body)) # 0
    /\ given[1].chunks[2].marker = MarkerAtom
    /\ sections["atoms"] # <<>>

====
